---- MODULE Spec2Model ----
(***************************************************************************)
(* The batched sync loops of the Wrike / HubSpot -> Neon sync scripts:     *)
(* process_clients, process_childprojects, process_parentprojects,         *)
(* process_deliverables_from_folder, process_tasks_from_folder,            *)
(* process_companies, process_contacts, run by their run_sync against a    *)
(* PostgreSQL destination.                                                 *)
(*                                                                         *)
(* The destination follows PostgreSQL / psycopg2: a statement that fails   *)
(* inside a transaction aborts the transaction, every later statement of   *)
(* that transaction fails, and COMMIT of an aborted transaction rolls back *)
(* without raising; rollback() on a connection that is closed raises.      *)
(***************************************************************************)
EXTENDS Integers, Naturals, Sequences, FiniteSets, TLC

\* ---------------------------------------------------------------- bounds
MaxRecords == 26          \* longest extracted record list
SmallLen   == 2           \* longest of the short record lists
MaxRuns    == 2           \* invocations of run_sync in one behaviour
MaxSource  == 217         \* most records the source API holds
MaxFailPage == 3          \* latest page request that may fail
MaxFolders == 3           \* most child-project folders in the space
MaxLoadBatches == 2       \* most batches one invocation loads
MaxEntities == 2          \* most folders of one type, and tasks per folder
MaxExponent == 400        \* decimal exponent of the largest raw number
MaxLookups == 2           \* most calls of parent_exists in one behaviour
MaxRaceRecords == 2       \* most records in the batch of a concurrent run
MaxLineBatches == 2       \* most batches of line items in one run
MaxLineRecords == 2       \* most line items in one batch
MaxRequests == 2          \* most start requests for the sync type
MaxDeals == 3             \* most deals in the page
MaxDealId == 2            \* deal ids are 1..MaxDealId

\* ------------------------------------------------------- program constants
BATCH_SIZE == 25
PAGE_SIZE == 100          \* batch_size of the paginated fetchers

NULL == "NULL"
ROOT_PARENT == "P1"       \* the id of a parent the parent sync can insert
\* the root id the tasks sync never accepts as a parent
ROOT_ID == "IEAGEMDVI7777777"

WrikeKinds   ==
  {"clients", "childprojects", "parentprojects", "deliverables", "tasks"}
HubSpotKinds == {"companies", "contacts"}
EntityKinds  == WrikeKinds \cup HubSpotKinds

\* entities whose loop calls parent_exists before the upsert
ChecksParent(e) == e \in {"parentprojects", "deliverables", "tasks"}
\* entities whose table has a foreign key on the parent column
HasParentColumn(e) ==
  e \in {"childprojects", "parentprojects", "deliverables", "tasks"}
\* entities written by WITH up AS (UPDATE ...) INSERT ... WHERE NOT EXISTS
UsesUpdateThenInsert(e) == e \in {"deliverables", "tasks"}
\* process_contacts bumps the run counters directly, the others per batch
CountsPerRecord(e) == e = "contacts"

VARIABLES
  entity,            \* which sync script runs
  nRecords,          \* len(records) handed to the loop
  faultPos,          \* position (1-based) of the one special record, 0 = none
  faultKind,         \* what is special about it
  dest,              \* committed rows of the destination table
  parents,           \* committed ids of the parent table
  work,              \* the table as the open transaction sees it
  txn,               \* "none" | "open" | "aborted"
  conn,              \* "none" | "open" | "closed"
  pc,                \* position of the script
  run,               \* number of run_sync invocations started
  now,               \* clock reading of the current run (datetime.now())
  batch_num,         \* loop variable of the for loop (0-based)
  idx,               \* records of the current batch already handled
  batch_ids,         \* batch_client_ids / batch_company_ids ...
  batch_processed,
  batch_skipped,
  processed_count,
  skipped_count,
  failed_batches,
  successful_batches,
  log,               \* the batch lines the logger has emitted, in order
  startDest,         \* the committed rows found when the run connected
  prev,              \* how the run before this one ended ("none" at first)
  parentAdded        \* a parent row was inserted since that run ended

vars == << entity, nRecords, faultPos, faultKind, dest, parents, work, txn, conn,
           pc, run, now, batch_num, idx, batch_ids, batch_processed,
           batch_skipped, processed_count, skipped_count, failed_batches,
           successful_batches, log, startDest, prev, parentAdded >>

\* ---- one upsert statement seen column by column (companies, contacts,
\* ---- line items, deals, clients, deliverables)
VARIABLES
  upsert_kind,       \* whose statement is built
  properties,        \* the source record's fields as the API returned them
  row_before,        \* the stored row with the record's id, or NoRow
  row_after,         \* the stored row after cursor.execute
  upsert_pc          \* "off" | "built" | "executed"

columnVars == << upsert_kind, properties, row_before, row_after, upsert_pc >>

\* ---- extraction: the paginated fetchers and what run_sync does with
\* ---- their result
VARIABLES
  script,            \* which sync script extracts
  source_count,      \* records the source API holds (ids 1..source_count)
  test_limit,        \* self.test_limit / limit; 0 stands for None
  fail_page,         \* the request (1-based) that fails, 0 = none
  fail_how,          \* "none" | "status" (non-2xx) | "raise" (network error)
                     \* | "commit" (conn.commit() raises)
  test_mode,         \* sync_deals(test_mode=...): --test
  folder_count,      \* child-project folders the Wrike space holds
  all_records,       \* all_companies / all_contacts / all_line_items
  after_token,       \* the cursor of the next request; 0 stands for None
  requested,         \* the cursors requested so far, in order
  fetch_pc,          \* "off" | "fetching" | "returned" | "loading" | ...
  attempted,         \* upserts attempted by the load phase
  committed,         \* records whose batch has been committed
  stats,             \* self.stats of sync_deals
  folder             \* child-project folders handled so far

extractVars == << script, source_count, test_limit, fail_page, fail_how,
                  test_mode, folder_count, all_records, after_token, requested, fetch_pc, attempted,
                  committed, stats, folder >>
extractInputs == << script, source_count, test_limit, fail_page, fail_how,
                    test_mode, folder_count >>

\* ---- one invocation of a script: main(), the constructor, run_sync
VARIABLES
  program,           \* the script main() belongs to
  missing,           \* the required variable that is unset, or "none"
  spaces,            \* GET /spaces: "production" | "others" | "error" | "n/a"
  db_connects,       \* psycopg2.connect() succeeds
  n_batches,         \* batches (pages for deals) the source gives rise to
  fail_at,           \* the batch that fails, 0 = none
  fail_kind,         \* "none" | "commit" (commit raises) | "lost" (connection lost)
  main_pc,           \* "off" | "main" | "space" | "connect" | "extract" | "load"
                     \* | "finally" | "exited"
  http_requests,     \* requests sent to the source API
  opened,            \* database connections opened
  closed,            \* calls of conn.close()
  batch_no,          \* batches attempted so far
  batches_committed, \* batches whose commit returned
  failed_list,       \* failed_batches of the process_* call
  reports,           \* what the run has logged, in order
  raised,            \* an exception is propagating out of run_sync
  exit_code          \* -1 while running, then the process's return code

runInputs == << program, missing, spaces, db_connects, n_batches, fail_at,
                fail_kind >>
runVars == << runInputs, main_pc, http_requests, opened, closed, batch_no,
              batches_committed, failed_list, reports, raised, exit_code >>

\* no invocation is part of the behaviour
RunOff ==
  /\ program = "none"
  /\ missing = "none"
  /\ spaces = "n/a"
  /\ db_connects = TRUE
  /\ n_batches = 0
  /\ fail_at = 0
  /\ fail_kind = "none"
  /\ main_pc = "off"
  /\ http_requests = 0
  /\ opened = 0
  /\ closed = 0
  /\ batch_no = 0
  /\ batches_committed = 0
  /\ failed_list = << >>
  /\ reports = << >>
  /\ raised = FALSE
  /\ exit_code = -1

\* ---- WrikeNeonSync.run_sync, the combined run over all entity types
VARIABLES
  n_clients,         \* client folders of the space (after the test limit)
  n_parents,         \* parent-project folders
  n_children,        \* child-project folders
  n_tasks,           \* tasks and deliverables of each child project
  raises_in,         \* the phase whose first statement raises, or "none"
  phase,             \* "off" | "clients" | "parents" | "children" | "done"
                     \* | "raised"
  position,          \* records of the phase handled so far
  task_position,     \* tasks of the current child project handled so far
  writes             \* statements executed and commits, in order

combinedInputs == << n_clients, n_parents, n_children, n_tasks, raises_in >>
combinedVars == << combinedInputs, phase, position, task_position, writes >>

\* no combined run is part of the behaviour
CombinedOff ==
  /\ n_clients = 0
  /\ n_parents = 0
  /\ n_children = 0
  /\ n_tasks = 0
  /\ raises_in = "none"
  /\ phase = "off"
  /\ position = 0
  /\ task_position = 0
  /\ writes = << >>

\* ---- the safe_* coercion functions of the HubSpot scripts
VARIABLES
  coerce_script,     \* the script whose functions are applied
  raw,               \* the raw property value handed to them
  coerced            \* per function: its outcome on raw, or Uncalled

coerceVars == << coerce_script, raw, coerced >>

\* no coercion is part of the behaviour
CoerceOff ==
  /\ coerce_script = "none"
  /\ raw = [ type |-> "NoneType", form |-> "None", mag |-> 0 ]
  /\ coerced = << >>

\* ---- parent_exists(parent_id, cursor) of the Wrike scripts
VARIABLES
  lookup_script,     \* the script whose parent_exists is called
  parent_table,      \* wrike_id of the rows of its parent table
  lookups,           \* the calls made so far: id asked, answer, and the
                     \* number of statements the call executed
  statements         \* SELECT statements executed on the cursor

lookupVars == << lookup_script, parent_table, lookups, statements >>

\* no lookup is part of the behaviour
LookupOff ==
  /\ lookup_script = "none"
  /\ parent_table = {}
  /\ lookups = << >>
  /\ statements = 0

\* ---- two runs of deliverables_sync / tasks_sync upserting the same id
VARIABLES
  race_entity,       \* "deliverables" | "tasks"
  unique_key,        \* the table has a unique index on wrike_id
  race_records,      \* records in the batch of each run
  table_rows,        \* committed rows of the table
  session,           \* per run: "running" | "waiting" | "done"
  session_txn,       \* per run: "open" | "aborted"
  handled,           \* per run: records of its batch handled so far
  pending,           \* per run: ids it has updated or inserted, uncommitted
  tally              \* per run: batch_processed and batch_skipped

raceInputs == << race_entity, unique_key, race_records >>
raceVars == << raceInputs, table_rows, session, session_txn, handled,
               pending, tally >>

\* no concurrent pair of runs is part of the behaviour
RaceOff ==
  /\ race_entity = "none"
  /\ unique_key = FALSE
  /\ race_records = 0
  /\ table_rows = {}
  /\ session = << >>
  /\ session_txn = << >>
  /\ handled = << >>
  /\ pending = << >>
  /\ tally = << >>

\* ---- HubSpotLineItemsSync.process_line_item_batch, called by run_sync
VARIABLES
  li_batches,        \* batches run_sync cuts the line items into
  li_records,        \* line items in each batch
  li_fault_at,       \* the batch in which the database fails, 0 = none
  li_fault_kind,     \* "none" | "connect" | "execute" | "commit" | "lost"
  li_fault_pos,      \* the line item whose statement fails ("execute")
  li_pc,             \* position in run_sync / process_line_item_batch
  li_batch,          \* batches handed to process_line_item_batch so far
  li_conn,           \* the local conn: "unbound" | "open" | "lost" | "closed"
  li_cursor,         \* the local cursor: "unbound" | "open" | "closed"
  li_txn,            \* "none" | "open" | "aborted"
  li_pos,            \* line items of the batch handled so far
  success_count,
  li_error,          \* the exception in flight, "none" if there is none
  li_result,         \* the value a return statement has set, -1 if none
  li_returns,        \* what each call returned, in order
  li_rollbacks,      \* conn.rollback() calls that succeeded
  li_written,        \* line items committed to the destination
  total_processed

lineInputs == << li_batches, li_records, li_fault_at, li_fault_kind,
                 li_fault_pos >>
lineVars == << lineInputs, li_pc, li_batch, li_conn, li_cursor, li_txn,
               li_pos, success_count, li_error, li_result, li_returns,
               li_rollbacks, li_written, total_processed >>

\* process_line_item_batch is not part of the behaviour
LineOff ==
  /\ li_batches = 0 /\ li_records = 0 /\ li_fault_at = 0
  /\ li_fault_kind = "none" /\ li_fault_pos = 0
  /\ li_pc = "off" /\ li_batch = 0
  /\ li_conn = "unbound" /\ li_cursor = "unbound" /\ li_txn = "none"
  /\ li_pos = 0 /\ success_count = 0 /\ li_error = "none"
  /\ li_result = -1 /\ li_returns = << >> /\ li_rollbacks = 0
  /\ li_written = 0 /\ total_processed = 0

\* ---- the dashboard (app.py): start_sync and run_sync_script, one sync type
VARIABLES
  script_exists,     \* os.path.exists(script_name)
  requests,          \* start requests received so far
  responses,         \* the answer to each: "started" | "rejected"
  active_sync,       \* active_syncs[sync_type]; status "absent" before the
                     \* first run
  worker,            \* per request: where its worker thread is
  return_code,       \* per request: the exit code of its subprocess, -1
                     \* while there is none
  sync_history       \* the records appended, in order

dashVars == << script_exists, requests, responses, active_sync, worker,
               return_code, sync_history >>

\* the dashboard is not part of the behaviour
DashOff ==
  /\ script_exists = FALSE
  /\ requests = 0
  /\ responses = << >>
  /\ active_sync = [ status |-> "absent", completed |-> FALSE ]
  /\ worker = << >>
  /\ return_code = << >>
  /\ sync_history = << >>

\* ---- sync_deals, one page of deals, with the created / updated counts
VARIABLES
  deal_ids,          \* the ids of the page's deals, in order
  deal_table,        \* the ids hubspot.deal holds (this transaction's view)
  deal_raises,       \* position of a deal whose mapping raises, 0 for none
  deal_pos,          \* deals handled so far
  deal_stats,        \* self.stats
  existed_before,    \* upserted deals whose id was in hubspot.deal before
  deal_pc            \* "off" | "loop" | "committed"

dealVars == << deal_ids, deal_table, deal_raises, deal_pos, deal_stats,
               existed_before, deal_pc >>

\* sync_deals with the counts is not part of the behaviour
DealOff ==
  /\ deal_ids = << >>
  /\ deal_table = {}
  /\ deal_raises = 0
  /\ deal_pos = 0
  /\ deal_stats = << >>
  /\ existed_before = 0
  /\ deal_pc = "off"

\* the variables of the parts declared after the extraction
laterVars == << runVars, combinedVars, coerceVars, lookupVars,
               raceVars,
               lineVars,
               dashVars,
               dealVars >>
LaterOff == RunOff /\ CombinedOff /\ CoerceOff /\ LookupOff
            /\ RaceOff
            /\ LineOff
            /\ DashOff
            /\ DealOff

\* variables the batch loops never touch
outsideLoops == << columnVars, extractVars, laterVars >>
\* variables the column-level upsert never touches
outsideColumns == << vars, extractVars, laterVars >>

inputs == << entity, nRecords, faultPos, faultKind >>
counters == << processed_count, skipped_count, failed_batches, successful_batches >>
batchLocals == << batch_ids, batch_processed, batch_skipped >>
database == << dest, parents, work, txn, conn >>
clock == << run, now, startDest >>
history == << prev, parentAdded >>

Range(seq) == { seq[i] : i \in 1..Len(seq) }

Min(a, b) == IF a < b THEN a ELSE b

\* ------------------------------------------------------------ source data
\* The k-th extracted record. At most one is special; the ids are distinct
\* unless the special one is a second occurrence ("dup") of record 1, which
\* then carries the values the source held when its page was served.
Rec(k) ==
  [ id     |-> IF k = faultPos /\ faultKind = "dup" THEN 1 ELSE k,
    val    |-> IF k = faultPos /\ faultKind = "dup" THEN "v2" ELSE "v1",
    parent |-> IF k = faultPos /\ faultKind = "orphan" THEN ROOT_PARENT
               ELSE IF k = faultPos /\ faultKind = "rootparent" THEN ROOT_ID
               ELSE NULL,
    fault  |-> IF k = faultPos /\ faultKind \in {"pyerr", "dberr"}
               THEN faultKind ELSE "none" ]

\* lengths of the extracted list: short lists, a full batch, and lists that
\* spill into a second batch
RecordCounts == (0..SmallLen) \cup (BATCH_SIZE..MaxRecords)

\* where the special record may sit: at the head of the list, or at the end
\* of the first batch and beyond
FaultPositions(n) == { k \in 1..n : k <= SmallLen \/ k >= BATCH_SIZE }

\* total_batches = (len(records) + BATCH_SIZE - 1) // BATCH_SIZE
total_batches == (nRecords + BATCH_SIZE - 1) \div BATCH_SIZE
start_idx(b) == b * BATCH_SIZE
end_idx(b) == Min(start_idx(b) + BATCH_SIZE, nRecords)
\* batch = records[start_idx:end_idx], as 1-based positions
BatchPositions(b) == (start_idx(b) + 1) .. end_idx(b)
BatchLen(b) == end_idx(b) - start_idx(b)
\* the record the inner loop is at
CurPos == start_idx(batch_num) + idx + 1
Cur == Rec(CurPos)

\* -------------------------------------------------------- destination rows
\* val stands for the columns in the SET list, created for created_date,
\* synced for _fivetran_synced (HubSpot tables only).
Row(id, val, created, synced) ==
  [ id |-> id, val |-> val, created |-> created, synced |-> synced ]

\* the row a record maps to
NewRow(e, r, t) ==
  Row(r.id, r.val, "c1", IF e \in HubSpotKinds THEN t ELSE 0)

\* rows present before the first run: a stale row of record 1 and a row of
\* an id the source does not hold
InitialDest == { Row(0, "v0", "c0", 0), Row(1, "v0", "c0", 0) }

\* variant: INSERT ... ON CONFLICT (id) DO NOTHING
OnConflictKeepsOld(e, table, row) ==
  IF \E r \in table : r.id = row.id THEN table ELSE table \cup {row}

\* INSERT ... ON CONFLICT (id) DO UPDATE SET col = EXCLUDED.col, ...
\* Wrike statements leave created_date out of the SET list; the HubSpot
\* statements set every non-null field but id.
OnConflictUpsert(e, table, row) ==
  IF \E r \in table : r.id = row.id
  THEN { IF r.id = row.id
         THEN IF e \in HubSpotKinds
              THEN [r EXCEPT !.val = row.val, !.created = row.created,
                             !.synced = row.synced]
              ELSE [r EXCEPT !.val = row.val]
         ELSE r : r \in table }
  ELSE table \cup {row}

\* variant: the INSERT without its WHERE NOT EXISTS (SELECT 1 FROM up)
UpdateAndInsert(table, row) ==
  { IF r.id = row.id THEN [r EXCEPT !.val = row.val] ELSE r : r \in table }
    \cup {row}

\* WITH up AS (UPDATE ... WHERE wrike_id = %s RETURNING wrike_id)
\* INSERT ... SELECT ... WHERE NOT EXISTS (SELECT 1 FROM up)
UpdateThenInsert(table, row) ==
  LET up == { r \in table : r.id = row.id }
      updated == { IF r \in up THEN [r EXCEPT !.val = row.val] ELSE r : r \in table }
  IN  IF up = {} THEN updated \cup {row} ELSE updated

\* variant: a plain INSERT, whatever the table holds
InsertAlways(e, table, row) == table \cup {row}

Upsert(e, table, row) ==
  IF UsesUpdateThenInsert(e) THEN UpdateThenInsert(table, row)
  ELSE OnConflictUpsert(e, table, row)

\* variant: no dependency check
parent_assumed(e, parent_id, parentTable) == TRUE

\* parent_exists(parent_id, cursor) of the sync script for entity e
parent_exists(e, parent_id, parentTable) ==
  IF parent_id = NULL THEN TRUE
  ELSE IF e = "tasks" /\ parent_id = ROOT_ID THEN FALSE
  ELSE parent_id \in parentTable


\* the batch loops are not part of the behaviour
LoopsOff ==
  /\ entity = "clients" /\ nRecords = 0 /\ faultPos = 0 /\ faultKind = "none"
  /\ dest = {} /\ parents = {} /\ work = {} /\ txn = "none" /\ conn = "none"
  /\ pc = "off" /\ run = 0 /\ now = 0 /\ batch_num = 0 /\ idx = 0
  /\ batch_ids = << >> /\ batch_processed = 0 /\ batch_skipped = 0
  /\ processed_count = 0 /\ skipped_count = 0 /\ failed_batches = << >>
  /\ successful_batches = 0 /\ log = << >> /\ startDest = {}
  /\ prev = "none" /\ parentAdded = FALSE

\* the column-level upsert is not part of the behaviour
ColumnsOff ==
  /\ upsert_kind = "none"
  /\ properties = << >>
  /\ row_before = << >>
  /\ row_after = << >>
  /\ upsert_pc = "off"

\* no extraction is part of the behaviour
ExtractOff ==
  /\ script = "none"
  /\ source_count = 0
  /\ test_limit = 0
  /\ fail_page = 0
  /\ fail_how = "none"
  /\ test_mode = FALSE
  /\ folder_count = 0
  /\ all_records = << >>
  /\ after_token = 0
  /\ requested = << >>
  /\ fetch_pc = "off"
  /\ attempted = 0
  /\ committed = 0
  /\ stats = << >>
  /\ folder = 0

\* ------------------------------------------------------------------- Init
Init ==
  /\ entity \in EntityKinds
  /\ nRecords \in RecordCounts
  /\ faultPos \in {0} \cup FaultPositions(nRecords)
  /\ faultKind \in IF faultPos = 0 THEN {"none"}
                   ELSE {"pyerr", "dberr"} \cup
                        (IF HasParentColumn(entity) THEN {"orphan"} ELSE {}) \cup
                        (IF entity = "tasks" THEN {"rootparent"} ELSE {})
  /\ dest = InitialDest
  /\ parents = {}
  /\ work = InitialDest
  /\ txn = "none"
  /\ conn = "none"
  /\ pc = "idle"
  /\ run = 0
  /\ now = 0
  /\ batch_num = 0
  /\ idx = 0
  /\ batch_ids = << >>
  /\ batch_processed = 0
  /\ batch_skipped = 0
  /\ processed_count = 0
  /\ skipped_count = 0
  /\ failed_batches = << >>
  /\ successful_batches = 0
  /\ log = << >>
  /\ startDest = InitialDest
  /\ prev = "none"
  /\ parentAdded = FALSE
  /\ ColumnsOff
  /\ ExtractOff
  /\ LaterOff

Ended == pc \in {"done", "raised", "killed"}

\* the logger has reported a failed batch
HasFailure(lines) == \E i \in 1..Len(lines) : lines[i][1] = "FAILED"

\* how a run that has ended went
Outcome == IF pc = "done" THEN IF HasFailure(log) THEN "failures" ELSE "clean"
           ELSE pc

\* a run starts: remember how the one before it ended
NoteStart ==
  IF pc = "idle" THEN UNCHANGED history
  ELSE prev' = Outcome /\ parentAdded' = FALSE

\* the state of a process that has not entered the loop: processed_count = 0,
\* skipped_count = 0, failed_batches = [], successful_batches = 0
FreshLocals ==
  /\ batch_num' = 0
  /\ idx' = 0
  /\ batch_ids' = << >>
  /\ batch_processed' = 0
  /\ batch_skipped' = 0
  /\ processed_count' = 0
  /\ skipped_count' = 0
  /\ failed_batches' = << >>
  /\ successful_batches' = 0

\* ------------------------------------------------------------- run_sync
\* run_sync up to the call of process_*: connect_db, extraction, and the
\* initialisation of the loop's counters.
StartRun ==
  /\ UNCHANGED outsideLoops
  /\ pc = "idle" \/ Ended
  /\ run < MaxRuns
  /\ ~(entity \in HubSpotKinds /\ nRecords = 0)
  /\ run' = run + 1
  /\ now' = now + 1
  /\ startDest' = dest
  /\ conn' = "open"
  /\ txn' = "none"
  /\ work' = dest
  /\ pc' = "loop"
  /\ FreshLocals
  /\ log' = << >>
  /\ NoteStart
  /\ UNCHANGED << inputs, dest, parents >>

\* HubSpot run_sync: "if not companies: return" inside try/finally
StartRunNothingToLoad ==
  /\ UNCHANGED outsideLoops
  /\ pc = "idle" \/ Ended
  /\ run < MaxRuns
  /\ entity \in HubSpotKinds /\ nRecords = 0
  /\ run' = run + 1
  /\ now' = now + 1
  /\ startDest' = dest
  /\ conn' = "closed"
  /\ txn' = "none"
  /\ work' = dest
  /\ pc' = "done"
  /\ FreshLocals
  /\ log' = << >>
  /\ NoteStart
  /\ UNCHANGED << inputs, dest, parents >>

\* ------------------------------------------------------- the batch loop
\* for batch_num in range(total_batches): slice, log, open the cursor
BeginBatch ==
  /\ UNCHANGED outsideLoops
  /\ pc = "loop"
  /\ batch_num < total_batches
  /\ pc' = "batch"
  /\ idx' = 0
  /\ batch_ids' = << >>
  /\ batch_processed' = 0
  /\ batch_skipped' = 0
  /\ log' = Append(log, << "start", batch_num + 1 >>)
  /\ UNCHANGED << inputs, database, clock, batch_num, counters, history >>

\* variant: the batch is attempted again
SameBatch(b) == b

\* the value range() hands to the next iteration
NextBatch(b) == b + 1

InBatch == pc = "batch" /\ idx < BatchLen(batch_num)

\* variant: the id is appended after the statement, so only for the
\* records that got that far
NoteIdAfterExecute ==
  batch_ids' = IF CountsPerRecord(entity) \/ Cur.fault = "pyerr" THEN batch_ids
               ELSE Append(batch_ids, Cur.id)

\* batch_xxx_ids.append(id), first statement of the per-record try:
\* process_contacts keeps no id list
NoteId ==
  batch_ids' = IF CountsPerRecord(entity) THEN batch_ids
               ELSE Append(batch_ids, Cur.id)

\* batch_skipped += 1 (process_contacts: skipped_count += 1)
CountSkipped ==
  IF CountsPerRecord(entity)
  THEN /\ skipped_count' = skipped_count + 1
       /\ UNCHANGED << batch_skipped, batch_processed, processed_count >>
  ELSE /\ batch_skipped' = batch_skipped + 1
       /\ UNCHANGED << skipped_count, batch_processed, processed_count >>

\* batch_processed += 1 (process_contacts: processed_count += 1)
CountProcessed ==
  IF CountsPerRecord(entity)
  THEN /\ processed_count' = processed_count + 1
       /\ UNCHANGED << batch_skipped, batch_processed, skipped_count >>
  ELSE /\ batch_processed' = batch_processed + 1
       /\ UNCHANGED << skipped_count, batch_skipped, processed_count >>

\* the statement execute() would raise a foreign-key violation
ForeignKeyViolation(e, r, parentTable) ==
  HasParentColumn(e) /\ r.parent # NULL /\ r.parent \notin parentTable

\* the session can run a statement
CanExecute == txn # "aborted"

\* the record raises in Python before any statement is sent
\* (int(company_id), iterating customFields): except Exception -> skipped
RecordRaisesBeforeExecute ==
  /\ UNCHANGED outsideLoops
  /\ InBatch
  /\ Cur.fault = "pyerr"
  /\ NoteId
  /\ CountSkipped
  /\ idx' = idx + 1
  /\ UNCHANGED << inputs, database, clock, pc, batch_num, failed_batches,
                  successful_batches, log, history >>

\* the transaction is aborted: execute() raises InFailedSqlTransaction,
\* caught per record
RecordStatementRejected ==
  /\ UNCHANGED outsideLoops
  /\ InBatch
  /\ Cur.fault # "pyerr"
  /\ ~CanExecute
  /\ NoteId
  /\ CountSkipped
  /\ idx' = idx + 1
  /\ UNCHANGED << inputs, database, clock, pc, batch_num, failed_batches,
                  successful_batches, log, history >>

\* if not self.parent_exists(parent_id, cursor): batch_skipped += 1; continue
RecordParentMissing ==
  /\ UNCHANGED outsideLoops
  /\ InBatch
  /\ Cur.fault # "pyerr"
  /\ CanExecute
  /\ ChecksParent(entity)
  /\ ~parent_exists(entity, Cur.parent, parents)
  /\ txn' = "open"
  /\ NoteId
  /\ CountSkipped
  /\ idx' = idx + 1
  /\ UNCHANGED << inputs, dest, parents, work, conn, clock, pc, batch_num,
                  failed_batches, successful_batches, log, history >>

\* cursor.execute(sql, params) raises a database error (bad value, foreign
\* key): caught per record, but the transaction is now aborted
RecordUpsertFails ==
  /\ UNCHANGED outsideLoops
  /\ InBatch
  /\ CanExecute
  /\ ChecksParent(entity) => parent_exists(entity, Cur.parent, parents)
  /\ Cur.fault = "dberr" \/ ForeignKeyViolation(entity, Cur, parents)
  /\ Cur.fault # "pyerr"
  /\ txn' = "aborted"
  /\ NoteId
  /\ CountSkipped
  /\ idx' = idx + 1
  /\ UNCHANGED << inputs, dest, parents, work, conn, clock, pc, batch_num,
                  failed_batches, successful_batches, log, history >>

\* cursor.execute(sql, params) succeeds; batch_processed += 1
RecordUpsertOk ==
  /\ UNCHANGED outsideLoops
  /\ InBatch
  /\ CanExecute
  /\ ChecksParent(entity) => parent_exists(entity, Cur.parent, parents)
  /\ Cur.fault = "none"
  /\ ~ForeignKeyViolation(entity, Cur, parents)
  /\ work' = Upsert(entity, work, NewRow(entity, Cur, now))
  /\ txn' = "open"
  /\ NoteId
  /\ CountProcessed
  /\ idx' = idx + 1
  /\ UNCHANGED << inputs, dest, parents, conn, clock, pc, batch_num,
                  failed_batches, successful_batches, log, history >>

AtCommit == pc = "batch" /\ idx = BatchLen(batch_num)

\* variant: COMMIT keeps the writes made before the failed statement
CommittedDespiteAbort(committedTable, txnView, txnState) == txnView

\* what COMMIT makes durable: the transaction's view if it is intact,
\* nothing if it was aborted (the server answers ROLLBACK)
Committed(committedTable, txnView, txnState) ==
  IF txnState = "open" THEN txnView ELSE committedTable

\* conn.commit() returns: the per-batch counters are added, the batch is
\* logged as completed
CommitBatch ==
  /\ UNCHANGED outsideLoops
  /\ AtCommit
  /\ dest' = Committed(dest, work, txn)
  /\ work' = dest'
  /\ txn' = "none"
  /\ IF CountsPerRecord(entity)
     THEN UNCHANGED counters
     ELSE /\ processed_count' = processed_count + batch_processed
          /\ skipped_count' = skipped_count + batch_skipped
          /\ successful_batches' = successful_batches + 1
          /\ UNCHANGED failed_batches
  /\ log' = Append(log, << "completed", batch_num + 1 >>)
  /\ batch_num' = NextBatch(batch_num)
  /\ pc' = "loop"
  /\ UNCHANGED << inputs, parents, conn, clock, idx, batchLocals, history >>

\* variant: the rollback leaves the writes of the batch in place
RolledBackKeepsWrites(committedTable, txnView) == txnView

\* the rows left after conn.rollback()
RolledBack(committedTable, txnView) == committedTable

\* failed_batches.append(failed_batch_info); process_contacts keeps no list
RecordFailure(e, fb, entry) ==
  IF CountsPerRecord(e) THEN fb ELSE Append(fb, entry)

\* variant: the per-record skips of the failed batch are counted too
SkippedTwice(skipped, batchLen, batchSkipped) ==
  skipped + batchLen + batchSkipped

\* skipped_count += len(batch)
SkippedAfterFailure(skipped, batchLen, batchSkipped) == skipped + batchLen

\* conn.commit() raises on a live connection (deferred constraint,
\* serialization failure): except Exception: conn.rollback(), record the
\* failed batch, skipped_count += len(batch)
CommitRaises ==
  /\ UNCHANGED outsideLoops
  /\ AtCommit
  /\ txn = "open"
  /\ dest' = RolledBack(dest, work)
  /\ work' = dest'
  /\ txn' = "none"
  /\ failed_batches' = RecordFailure(entity, failed_batches,
                         [ batch_number |-> batch_num + 1,
                           ids          |-> batch_ids,
                           error        |-> "commit",
                           count        |-> BatchLen(batch_num) ])
  /\ skipped_count' = SkippedAfterFailure(skipped_count, BatchLen(batch_num),
                                          batch_skipped)
  /\ log' = Append(log, << "FAILED", batch_num + 1 >>)
  /\ batch_num' = NextBatch(batch_num)
  /\ pc' = "loop"
  /\ UNCHANGED << inputs, parents, conn, clock, idx, batchLocals,
                  processed_count, successful_batches, history >>

\* the connection was lost during the batch: conn.commit() raises, and
\* conn.rollback() in the handler raises InterfaceError (connection already
\* closed), which leaves the loop and process_*; run_sync closes the
\* connection in finally and re-raises. The server has discarded the
\* transaction.
CommitOnDeadConnection ==
  /\ UNCHANGED outsideLoops
  /\ AtCommit
  /\ conn' = "closed"
  /\ txn' = "none"
  /\ work' = dest
  /\ pc' = "raised"
  /\ UNCHANGED << inputs, dest, parents, clock, batch_num, idx, batchLocals,
                  counters, log, history >>

\* the for loop is exhausted: process_* returns its counters, run_sync logs
\* the summary and closes the connection
FinishLoop ==
  /\ UNCHANGED outsideLoops
  /\ pc = "loop"
  /\ batch_num >= total_batches
  /\ pc' = "done"
  /\ conn' = "closed"
  /\ UNCHANGED << inputs, dest, parents, work, txn, clock, batch_num, idx,
                  batchLocals, counters, log, history >>

\* ------------------------------------------------------------ environment
\* the supervisor terminates the process; the server rolls back whatever
\* transaction the connection had open
Kill ==
  /\ UNCHANGED outsideLoops
  /\ pc \in {"loop", "batch"}
  /\ pc' = "killed"
  /\ conn' = "closed"
  /\ txn' = "none"
  /\ work' = dest
  /\ FreshLocals
  /\ UNCHANGED << inputs, dest, parents, clock, log, history >>

\* a run of the parent entity's sync commits the missing parent row
\* between two runs of this script
InsertParent ==
  /\ UNCHANGED outsideLoops
  /\ pc = "idle" \/ Ended
  /\ run < MaxRuns
  /\ HasParentColumn(entity)
  /\ ROOT_PARENT \notin parents
  /\ parents' = parents \cup {ROOT_PARENT}
  /\ pc' = "idle"
  /\ prev' = IF pc = "idle" THEN prev ELSE Outcome
  /\ parentAdded' = TRUE
  /\ FreshLocals
  /\ log' = << >>
  /\ startDest' = dest
  /\ UNCHANGED << inputs, dest, work, txn, conn, run, now >>

Next ==
  \/ StartRun
  \/ StartRunNothingToLoad
  \/ BeginBatch
  \/ RecordRaisesBeforeExecute
  \/ RecordStatementRejected
  \/ RecordParentMissing
  \/ RecordUpsertFails
  \/ RecordUpsertOk
  \/ CommitBatch
  \/ CommitRaises
  \/ CommitOnDeadConnection
  \/ FinishLoop
  \/ Kill
  \/ InsertParent

Spec == Init /\ [][Next]_vars


\* ===================================================================
\* One upsert statement, column by column
\* ===================================================================
None == "None"            \* Python's None
PORTAL_ID == "1849303"    \* self.portal_id

\* values a source field can carry; None also stands for a missing key
RawValues == { None, "", " a", "it's", "7" }

UpsertKinds == { "company", "deal", "client", "deliverable" }

\* the columns of the destination row besides its key
Columns(kind) ==
  IF kind \in {"company", "deal"}
  THEN { "property_name", "property_amount", "portal_id" }
  ELSE { "title", "owner_id", "created_date" }

\* the fields of the source record
SourceKeys(kind) ==
  IF kind \in {"company", "deal"}
  THEN { "name", "amount" }
  ELSE { "title", "ownerId", "createdDate" }

NoRow == << >>

\* rows the destination may hold for the id before the upsert
StoredRows(kind) ==
  IF kind \in {"company", "deal"}
  THEN { [ property_name |-> n, property_amount |-> a, portal_id |-> PORTAL_ID ] :
           n \in { NULL, "old" }, a \in { NULL, "1.0" } }
  ELSE { [ title |-> t, owner_id |-> o, created_date |-> c ] :
           t \in { NULL, "old" }, o \in { NULL, "old" }, c \in { NULL, "old" } }

\* str(value).replace("'", "''")
EscapeQuotes(v) == IF v = "it's" THEN "it''s" ELSE v

\* str(value).strip()
Strip(v) == IF v = " a" THEN "a" ELSE v

\* safe_string of the Wrike scripts and of the companies / contacts scripts
safe_string(v) == IF v = None THEN "" ELSE EscapeQuotes(v)

\* safe_string of hubspot_deals_sync
deal_safe_string(v) ==
  IF v = None THEN None
  ELSE IF Strip(v) = "" THEN None
  ELSE Strip(v)

\* safe_number: float(value), None when it cannot be parsed
safe_number(v) ==
  IF v = None \/ v = "" THEN None
  ELSE IF v = "7" THEN "7.0"
  ELSE None

\* if value: (Python truthiness of a string or None)
Truthy(v) == v # None /\ v # ""

\* db_values of process_companies / process_contacts
db_values(props) ==
  [ property_name   |-> IF Truthy(props.name) THEN safe_string(props.name) ELSE None,
    property_amount |-> safe_number(props.amount),
    portal_id       |-> PORTAL_ID ]

\* map_deal_properties
map_deal_properties(props) ==
  [ property_name   |-> deal_safe_string(props.name),
    property_amount |-> safe_number(props.amount),
    portal_id       |-> PORTAL_ID ]

\* params of the fixed-column Wrike statements
params(props) ==
  [ title        |-> safe_string(props.title),
    owner_id     |-> props.ownerId,
    created_date |-> props.createdDate ]

\* the typed values the script hands to the statement
TypedValues(kind, props) ==
  IF kind = "company" THEN db_values(props)
  ELSE IF kind = "deal" THEN map_deal_properties(props)
  ELSE params(props)

\* psycopg2 sends None as NULL
Adapt(v) == IF v = None THEN NULL ELSE v

\* variant: the column list is not filtered
AllColumns(kind, vals) == DOMAIN vals

\* the columns named in INSERT INTO t (...): non_null_fields for the
\* dynamic statements, every column for the others
InsertColumns(kind, vals) ==
  IF kind = "company" THEN { c \in DOMAIN vals : vals[c] # None }
  ELSE DOMAIN vals

\* variant: the title is left out of the SET list
UpdateColumnsWithoutTitle(kind, vals) ==
  InsertColumns(kind, vals) \ { "title", "created_date", "portal_id" }

\* the columns of the SET list: all inserted ones but id for the dynamic
\* statements, but id and portal_id in upsert_deal, but wrike_id and
\* created_date in the Wrike statements
UpdateColumns(kind, vals) ==
  IF kind = "company" THEN InsertColumns(kind, vals)
  ELSE IF kind = "deal" THEN InsertColumns(kind, vals) \ { "portal_id" }
  ELSE InsertColumns(kind, vals) \ { "created_date" }

\* the row an INSERT of the listed columns creates
Inserted(kind, vals) ==
  [ c \in Columns(kind) |->
      IF c \in InsertColumns(kind, vals) THEN Adapt(vals[c]) ELSE NULL ]

\* the row after UPDATE ... SET of the listed columns
Updated(kind, vals, before) ==
  [ c \in Columns(kind) |->
      IF c \in UpdateColumns(kind, vals) THEN Adapt(vals[c]) ELSE before[c] ]

\* INSERT ... ON CONFLICT (id) DO UPDATE SET ...
ExecuteOnConflict(kind, vals, before) ==
  IF before = NoRow THEN Inserted(kind, vals) ELSE Updated(kind, vals, before)

\* WITH up AS (UPDATE ... RETURNING wrike_id) INSERT ... WHERE NOT EXISTS
ExecuteUpdateThenInsert(kind, vals, before) ==
  LET up == IF before = NoRow THEN {} ELSE { Updated(kind, vals, before) }
  IN  IF up = {} THEN Inserted(kind, vals) ELSE CHOOSE r \in up : TRUE

ColumnInit ==
  /\ upsert_kind \in UpsertKinds
  /\ properties \in [ SourceKeys(upsert_kind) -> RawValues ]
  /\ row_before \in StoredRows(upsert_kind) \cup { NoRow }
  /\ row_after = row_before
  /\ upsert_pc = "ready"
  /\ LoopsOff
  /\ ExtractOff
  /\ LaterOff

\* process_companies / process_contacts / process_line_item_batch:
\* non_null_fields, cursor.execute
UpsertCompany ==
  /\ upsert_pc = "ready" /\ upsert_kind = "company"
  /\ row_after' = ExecuteOnConflict(upsert_kind, db_values(properties), row_before)
  /\ upsert_pc' = "executed"
  /\ UNCHANGED << upsert_kind, properties, row_before, outsideColumns >>

\* upsert_deal(cursor, self.map_deal_properties(deal))
upsert_deal ==
  /\ upsert_pc = "ready" /\ upsert_kind = "deal"
  /\ row_after' = ExecuteOnConflict(upsert_kind, map_deal_properties(properties),
                                    row_before)
  /\ upsert_pc' = "executed"
  /\ UNCHANGED << upsert_kind, properties, row_before, outsideColumns >>

\* process_clients (and parent / child projects): cursor.execute(sql, params)
UpsertClient ==
  /\ upsert_pc = "ready" /\ upsert_kind = "client"
  /\ row_after' = ExecuteOnConflict(upsert_kind, params(properties), row_before)
  /\ upsert_pc' = "executed"
  /\ UNCHANGED << upsert_kind, properties, row_before, outsideColumns >>

\* process_deliverables_from_folder / process_tasks_from_folder:
\* cursor.execute(sql, update_params + insert_params)
UpsertDeliverable ==
  /\ upsert_pc = "ready" /\ upsert_kind = "deliverable"
  /\ row_after' = ExecuteUpdateThenInsert(upsert_kind, params(properties),
                                          row_before)
  /\ upsert_pc' = "executed"
  /\ UNCHANGED << upsert_kind, properties, row_before, outsideColumns >>

ColumnNext ==
  \/ UpsertCompany
  \/ upsert_deal
  \/ UpsertClient
  \/ UpsertDeliverable

ColumnSpec == ColumnInit /\ [][ColumnNext]_columnVars

\* the source field a column is filled from ("" for a constant column)
SourceOf(col) ==
  IF col \in {"property_name"} THEN "name"
  ELSE IF col = "property_amount" THEN "amount"
  ELSE IF col = "title" THEN "title"
  ELSE IF col = "owner_id" THEN "ownerId"
  ELSE IF col = "created_date" THEN "createdDate"
  ELSE ""

\* the upsert has been executed on a row that existed
UpdatedExisting == upsert_pc = "executed" /\ row_before # NoRow

\* ===================================================================
\* Extraction: get_all_companies, get_all_contacts, get_all_line_items
\* ===================================================================
\* sizes of the source: empty, short, one full page, one page and a bit,
\* two full pages, two pages and a bit
SourceCounts ==
  (0..SmallLen) \cup { PAGE_SIZE, PAGE_SIZE + 1, 2 * PAGE_SIZE, MaxSource }

\* limits: none (0), short, one page, one page and a bit
Limits == (0..SmallLen) \cup { PAGE_SIZE, PAGE_SIZE + 1 }

\* the ids a..b in order
Ids(a, b) == [ i \in 1..(IF b >= a THEN b - a + 1 ELSE 0) |-> a + i - 1 ]

\* the i-th request is the one that fails
RequestFails(i) == fail_page # 0 /\ i = fail_page

\* variant: the server's cursor skips a record
PageSkipping(after, size) ==
  [ results |-> Ids(after + 1, Min(after + size, source_count)),
    next    |-> IF after + size < source_count THEN after + size + 1 ELSE 0 ]

\* the response of the objects API to (after, limit): 'results' and
\* paging.next.after, absent (0) on the last page
Page(after, size) ==
  [ results |-> Ids(after + 1, Min(after + size, source_count)),
    next    |-> IF after + size < source_count THEN after + size ELSE 0 ]

\* batch_size = min(batch_size, self.test_limit) if self.test_limit
batch_size(limit) == IF limit # 0 THEN Min(PAGE_SIZE, limit) ELSE PAGE_SIZE

\* all_companies[:self.test_limit]
Truncated(records, limit) == SubSeq(records, 1, Min(limit, Len(records)))

\* variant: a failed request discards what was accumulated
DiscardedOnFailure(s, how, records) == << >>

\* what the fetcher returns when a request fails: get_companies_batch
\* returns {} and the loop breaks; get_all_line_items breaks on a non-200
\* status and returns [] from its except block on an exception
KeptOnFailure(s, how, records) ==
  IF s = "line_items" /\ how = "raise" THEN << >> ELSE records

FetchInit ==
  /\ script \in { "companies", "contacts", "line_items" }
  /\ source_count \in SourceCounts
  /\ test_limit \in Limits
  /\ fail_page \in 0..MaxFailPage
  /\ fail_how \in IF fail_page = 0 THEN {"none"} ELSE {"status", "raise"}
  /\ test_mode = FALSE
  /\ folder_count = 0
  /\ all_records = << >>
  /\ after_token = 0
  /\ requested = << >>
  /\ fetch_pc = "fetching"
  /\ attempted = 0
  /\ committed = 0
  /\ stats = << >>
  /\ folder = 0
  /\ LoopsOff
  /\ ColumnsOff
  /\ LaterOff

\* one iteration of the while loop of get_all_companies / get_all_contacts;
\* get_companies_batch turns every exception into {}
GetCompaniesPage ==
  /\ fetch_pc = "fetching"
  /\ script \in { "companies", "contacts" }
  /\ requested' = Append(requested, after_token)
  /\ IF RequestFails(Len(requested) + 1)
     THEN /\ all_records' = KeptOnFailure(script, fail_how, all_records)
          /\ fetch_pc' = "returned"
          /\ UNCHANGED after_token
     ELSE LET batch_data == Page(after_token, batch_size(test_limit))
              extended == all_records \o batch_data.results
          IN  IF test_limit # 0 /\ Len(extended) >= test_limit
              THEN /\ all_records' = Truncated(extended, test_limit)
                   /\ fetch_pc' = "returned"
                   /\ UNCHANGED after_token
              ELSE /\ all_records' = extended
                   /\ after_token' = batch_data.next
                   /\ fetch_pc' = IF batch_data.next = 0 THEN "returned"
                                  ELSE "fetching"
  /\ UNCHANGED << extractInputs, attempted, committed, stats, folder,
                  vars, columnVars, laterVars >>

\* one iteration of the while loop of get_all_line_items: a non-200
\* response breaks, an exception leaves through except: return []
GetLineItemsPage ==
  /\ fetch_pc = "fetching"
  /\ script = "line_items"
  /\ requested' = Append(requested, after_token)
  /\ IF RequestFails(Len(requested) + 1)
     THEN /\ all_records' = KeptOnFailure(script, fail_how, all_records)
          /\ fetch_pc' = "returned"
          /\ UNCHANGED after_token
     ELSE LET data == Page(after_token, PAGE_SIZE)
              extended == all_records \o data.results
          IN  IF data.results = << >>
              THEN /\ fetch_pc' = "returned"
                   /\ UNCHANGED << all_records, after_token >>
              ELSE IF test_limit # 0 /\ Len(extended) >= test_limit
              THEN /\ all_records' = Truncated(extended, test_limit)
                   /\ fetch_pc' = "returned"
                   /\ UNCHANGED after_token
              ELSE /\ all_records' = extended
                   /\ after_token' = data.next
                   /\ fetch_pc' = IF data.next = 0 THEN "returned"
                                  ELSE "fetching"
  /\ UNCHANGED << extractInputs, attempted, committed, stats, folder,
                  vars, columnVars, laterVars >>

\* run_sync: if not companies: return
RunSyncNothingFetched ==
  /\ fetch_pc = "returned"
  /\ all_records = << >>
  /\ fetch_pc' = "nothing"
  /\ UNCHANGED << extractInputs, all_records, after_token, requested,
                  attempted, committed, stats, folder, vars, columnVars, laterVars >>

\* run_sync: the fetched list is handed to process_companies /
\* process_contacts, or sliced into batches of line items
RunSyncLoads ==
  /\ fetch_pc = "returned"
  /\ all_records # << >>
  /\ fetch_pc' = "loading"
  /\ IF script = "line_items"
     THEN UNCHANGED vars
     ELSE /\ entity' = script
          /\ nRecords' = Len(all_records)
          /\ pc' = "idle"
          /\ run' = MaxRuns - 1
          /\ UNCHANGED << faultPos, faultKind, dest, parents, work, txn, conn,
                          now, batch_num, idx, batch_ids, batch_processed,
                          batch_skipped, processed_count, skipped_count,
                          failed_batches, successful_batches, log, startDest,
                          prev, parentAdded >>
  /\ UNCHANGED << extractInputs, all_records, after_token, requested,
                  attempted, committed, stats, folder, columnVars,
                  laterVars >>

FetchNext ==
  \/ GetCompaniesPage
  \/ GetLineItemsPage
  \/ RunSyncNothingFetched
  \/ RunSyncLoads

FetchSpec == FetchInit /\ [][FetchNext]_extractVars

\* the page size the script asks for
RequestSize ==
  IF script = "line_items" THEN PAGE_SIZE ELSE batch_size(test_limit)

\* the fetcher has returned to run_sync
Fetched == fetch_pc \in { "returned", "nothing", "loading", "done" }

\* request k was sent
WasRequested(k) == Len(requested) >= k

\* the records of the pages before page k
PagesBefore(k) == Ids(1, Min(source_count, (k - 1) * RequestSize))

\* -------------------------------------------------- fetch, then load
\* run_sync of the line-item script: one call of process_line_item_batch
\* on the next slice of 25. Every item of the slice is attempted; the
\* batch's own connection commits, or the commit raises psycopg2.Error and
\* the call returns 0.
ProcessLineItemBatch ==
  /\ fetch_pc = "loading"
  /\ script = "line_items"
  /\ attempted < Len(all_records)
  /\ LET batch == Min(BATCH_SIZE, Len(all_records) - attempted)
     IN  /\ attempted' = attempted + batch
         /\ \E ok \in BOOLEAN :
              committed' = IF ok THEN committed + batch ELSE committed
  /\ UNCHANGED << extractInputs, all_records, after_token, requested,
                  fetch_pc, stats, folder, vars, columnVars, laterVars >>

\* run_sync of the line-item script: the for loop over the slices is
\* exhausted, the completion summary is logged
LineItemsCompleted ==
  /\ fetch_pc = "loading"
  /\ script = "line_items"
  /\ attempted >= Len(all_records)
  /\ fetch_pc' = "done"
  /\ UNCHANGED << extractInputs, all_records, after_token, requested,
                  attempted, committed, stats, folder, vars, columnVars, laterVars >>

\* a run with a positive limit against a source that holds at least that
\* many records and answers every request
LimitInit ==
  /\ FetchInit
  /\ test_limit > 0
  /\ source_count >= test_limit
  /\ fail_page = 0

\* extraction followed by the load of what was extracted; every record
\* maps cleanly, a commit may still raise
LimitNext ==
  \/ GetCompaniesPage
  \/ GetLineItemsPage
  \/ RunSyncLoads
  \/ StartRun
  \/ BeginBatch
  \/ RecordUpsertOk
  \/ CommitBatch
  \/ CommitRaises
  \/ FinishLoop
  \/ ProcessLineItemBatch
  \/ LineItemsCompleted

LimitSpec == LimitInit /\ [][LimitNext]_<< vars, extractVars >>

\* the load phase of the run has finished
LoadFinished ==
  IF script = "line_items" THEN fetch_pc = "done"
  ELSE fetch_pc = "loading" /\ pc = "done"

\* the number of records the load reports as attempted
LoadAttempted ==
  IF script = "line_items" THEN attempted
  ELSE processed_count + skipped_count

\* ===================================================================
\* Loads that fetch as they go: sync_deals (page by page) and the
\* deliverables / tasks syncs (folder by folder)
\* ===================================================================
\* self.stats as __init__ leaves it
NoStats ==
  [ processed |-> 0, created |-> 0, updated |-> 0, errors |-> 0, skipped |-> 0 ]

\* child-project folders in the space
FolderCounts == 0..MaxFolders

\* a run of sync_deals, or of run_sync of the deliverables / tasks script
PagedInit ==
  /\ script \in { "deals", "deliverables", "tasks" }
  /\ source_count \in SourceCounts
  /\ test_limit \in Limits
  /\ fail_page \in IF script = "deals" THEN 0..MaxFailPage ELSE {0}
  /\ fail_how \in IF fail_page = 0 THEN {"none"}
                  ELSE {"status", "raise", "commit"}
  /\ test_mode \in IF script = "deals" THEN BOOLEAN ELSE {FALSE}
  /\ folder_count \in IF script = "deals" THEN {0} ELSE FolderCounts
  /\ all_records = << >>
  /\ after_token = 0
  /\ requested = << >>
  /\ fetch_pc = "fetching"
  /\ attempted = 0
  /\ committed = 0
  /\ stats = NoStats
  /\ folder = 0
  /\ LoopsOff
  /\ ColumnsOff
  /\ LaterOff

\* the limit check, which sits after the page's commit:
\* if limit and self.stats['processed'] >= limit: break
LimitReached(limit, st) == limit # 0 /\ st.processed >= limit

\* one iteration of while True in sync_deals: get_deals_batch, the loop
\* over the page's deals, conn.commit(), the paging and limit checks
SyncDealsPage ==
  /\ fetch_pc = "fetching"
  /\ script = "deals"
  /\ requested' = Append(requested, after_token)
  /\ IF RequestFails(Len(requested) + 1) /\ fail_how \in {"status", "raise"}
     THEN \* get_deals_batch logs and re-raises; sync_deals rolls back, raises
          /\ fetch_pc' = "raised"
          /\ UNCHANGED << after_token, attempted, committed, stats >>
     ELSE LET response == Page(after_token, PAGE_SIZE)
              deals == response.results
          IN  IF deals = << >>
              THEN /\ fetch_pc' = "returned"
                   /\ UNCHANGED << after_token, attempted, committed, stats >>
              ELSE \E errs \in 0..1 :
                   IF errs = 1 /\ test_mode
                   THEN \* the first deal raises and test_mode re-raises
                        /\ stats' = [stats EXCEPT !.errors = @ + 1]
                        /\ attempted' = attempted + 1
                        /\ fetch_pc' = "raised"
                        /\ UNCHANGED << after_token, committed >>
                   ELSE LET done == Len(deals) - errs
                            st == [stats EXCEPT !.processed = @ + done,
                                                !.created = @ + done,
                                                !.errors = @ + errs]
                            pc_after ==
                              IF response.next = 0 THEN "returned"
                              ELSE IF LimitReached(test_limit, st)
                                   THEN "returned" ELSE "fetching"
                        IN  /\ stats' = st
                            /\ attempted' = attempted + Len(deals)
                            /\ IF RequestFails(Len(requested) + 1)
                               THEN \* conn.commit() raises: the inner handler
                                    \* rolls back and re-raises, so does the
                                    \* outer one
                                    /\ fetch_pc' = "raised"
                                    /\ UNCHANGED << after_token, committed >>
                               ELSE /\ committed' = committed + done
                                    /\ after_token' = response.next
                                    /\ fetch_pc' = pc_after
  /\ UNCHANGED << extractInputs, all_records, folder, vars, columnVars, laterVars >>

\* deliverables[:self.test_limit] inside process_deliverables_from_folder
FolderRecords(n, limit) == IF limit # 0 THEN Min(n, limit) ELSE n

\* child_projects[:self.test_limit] in run_sync
FoldersVisited(n, limit) == IF limit # 0 THEN Min(n, limit) ELSE n

\* run_sync of the deliverables / tasks script: one iteration of the loop
\* over child projects, i.e. one call of process_*_from_folder, which
\* attempts every record it kept of the folder
ProcessFolder ==
  /\ fetch_pc = "fetching"
  /\ script \in { "deliverables", "tasks" }
  /\ folder < FoldersVisited(folder_count, test_limit)
  /\ folder' = folder + 1
  /\ attempted' = attempted + FolderRecords(source_count, test_limit)
  /\ \E ok \in BOOLEAN :
       committed' = IF ok THEN committed + FolderRecords(source_count, test_limit)
                    ELSE committed
  /\ UNCHANGED << extractInputs, all_records, after_token, requested,
                  fetch_pc, stats, vars, columnVars, laterVars >>

\* run_sync of the deliverables / tasks script: the loop over child
\* projects is exhausted, the summary is logged
FoldersCompleted ==
  /\ fetch_pc = "fetching"
  /\ script \in { "deliverables", "tasks" }
  /\ folder >= FoldersVisited(folder_count, test_limit)
  /\ fetch_pc' = "returned"
  /\ UNCHANGED << extractInputs, all_records, after_token, requested,
                  attempted, committed, stats, folder, vars, columnVars, laterVars >>

PagedNext ==
  \/ SyncDealsPage
  \/ ProcessFolder
  \/ FoldersCompleted

PagedSpec == PagedInit /\ [][PagedNext]_extractVars

\* ===================================================================
\* A child-entity run with the parent entity's run going on beside it
\* ===================================================================
\* the parent entity's run commits the batch that holds the parent row
\* while the child run is under way. Until that commit the row is
\* invisible to the child's session (READ COMMITTED), parent rows are
\* never deleted, and the parent's upsert leaves the key column alone, so
\* the child's statements take no lock the parent run holds.
ParentRunCommits ==
  /\ UNCHANGED outsideLoops
  /\ pc \in {"loop", "batch"}
  /\ ROOT_PARENT \notin parents
  /\ parents' = parents \cup {ROOT_PARENT}
  /\ parentAdded' = TRUE
  /\ UNCHANGED << inputs, dest, work, txn, conn, clock, pc, batch_num, idx,
                  batchLocals, counters, log, prev >>

\* one run of a script whose table references a parent table; one record
\* may name a parent the destination does not hold yet
ConcurrentInit ==
  /\ entity \in { e \in WrikeKinds : HasParentColumn(e) }
  /\ nRecords \in RecordCounts
  /\ faultPos \in {0} \cup FaultPositions(nRecords)
  /\ faultKind \in IF faultPos = 0 THEN {"none"} ELSE {"orphan"}
  /\ dest = InitialDest
  /\ parents = {}
  /\ work = InitialDest
  /\ txn = "none"
  /\ conn = "none"
  /\ pc = "idle"
  /\ run = MaxRuns - 1
  /\ now = 0
  /\ batch_num = 0
  /\ idx = 0
  /\ batch_ids = << >>
  /\ batch_processed = 0
  /\ batch_skipped = 0
  /\ processed_count = 0
  /\ skipped_count = 0
  /\ failed_batches = << >>
  /\ successful_batches = 0
  /\ log = << >>
  /\ startDest = InitialDest
  /\ prev = "none"
  /\ parentAdded = FALSE
  /\ ColumnsOff
  /\ ExtractOff
  /\ LaterOff

ConcurrentNext ==
  \/ StartRun
  \/ BeginBatch
  \/ RecordStatementRejected
  \/ RecordParentMissing
  \/ RecordUpsertFails
  \/ RecordUpsertOk
  \/ CommitBatch
  \/ FinishLoop
  \/ ParentRunCommits

ConcurrentSpec == ConcurrentInit /\ [][ConcurrentNext]_vars

\* the child run's step on the current record
RecordStep ==
  \/ RecordStatementRejected
  \/ RecordParentMissing
  \/ RecordUpsertFails
  \/ RecordUpsertOk

\* every row this run has committed has a null parent or a parent that
\* the destination holds
ParentReferenced ==
  \A r \in dest :
    (r.val = "v1" /\ r.id \in 1..nRecords) =>
       \/ Rec(r.id).parent = NULL
       \/ Rec(r.id).parent \in parents

\* ===================================================================
\* One run of a batch loop, with every way a record or a commit can fail
\* ===================================================================
OneRunInit ==
  /\ entity \in EntityKinds
  /\ nRecords \in RecordCounts
  /\ faultPos \in {0} \cup FaultPositions(nRecords)
  /\ faultKind \in IF faultPos = 0 THEN {"none"}
                   ELSE {"pyerr", "dberr"} \cup
                        (IF HasParentColumn(entity) THEN {"orphan"} ELSE {})
  /\ dest = InitialDest
  /\ parents = {}
  /\ work = InitialDest
  /\ txn = "none"
  /\ conn = "none"
  /\ pc = "idle"
  /\ run = MaxRuns - 1
  /\ now = 0
  /\ batch_num = 0
  /\ idx = 0
  /\ batch_ids = << >>
  /\ batch_processed = 0
  /\ batch_skipped = 0
  /\ processed_count = 0
  /\ skipped_count = 0
  /\ failed_batches = << >>
  /\ successful_batches = 0
  /\ log = << >>
  /\ startDest = InitialDest
  /\ prev = "none"
  /\ parentAdded = FALSE
  /\ ColumnsOff
  /\ ExtractOff
  /\ LaterOff

OneRunNext ==
  \/ StartRun
  \/ StartRunNothingToLoad
  \/ BeginBatch
  \/ RecordRaisesBeforeExecute
  \/ RecordStatementRejected
  \/ RecordParentMissing
  \/ RecordUpsertFails
  \/ RecordUpsertOk
  \/ CommitBatch
  \/ CommitRaises
  \/ CommitOnDeadConnection
  \/ FinishLoop

OneRunSpec == OneRunInit /\ [][OneRunNext]_vars

\* the ids of the records of batch b, in the order of the list
IdsOfBatch(b) == [ i \in 1..BatchLen(b) |-> Rec(start_idx(b) + i).id ]

\* ===================================================================
\* A source list that holds one external id twice
\* ===================================================================
\* the fetchers extend the list with every page as served
\* (all_companies.extend(batch_data['results'])), so a record that moves
\* between pages while the fetch is under way is in the list twice
DuplicateInit ==
  /\ entity \in EntityKinds
  /\ nRecords \in RecordCounts \ {0, 1}
  /\ faultPos \in FaultPositions(nRecords) \ {1}
  /\ faultKind = "dup"
  /\ dest = InitialDest
  /\ parents = {}
  /\ work = InitialDest
  /\ txn = "none"
  /\ conn = "none"
  /\ pc = "idle"
  /\ run = MaxRuns - 1
  /\ now = 0
  /\ batch_num = 0
  /\ idx = 0
  /\ batch_ids = << >>
  /\ batch_processed = 0
  /\ batch_skipped = 0
  /\ processed_count = 0
  /\ skipped_count = 0
  /\ failed_batches = << >>
  /\ successful_batches = 0
  /\ log = << >>
  /\ startDest = InitialDest
  /\ prev = "none"
  /\ parentAdded = FALSE
  /\ ColumnsOff
  /\ ExtractOff
  /\ LaterOff

DuplicateNext ==
  \/ StartRun
  \/ BeginBatch
  \/ RecordUpsertOk
  \/ CommitBatch
  \/ CommitRaises
  \/ FinishLoop

DuplicateSpec == DuplicateInit /\ [][DuplicateNext]_vars

\* ===================================================================
\* One invocation of a script, from main() to the process's exit
\* ===================================================================
WrikeScripts ==
  { "clients", "parentprojects", "childprojects", "deliverables", "tasks" }
WrikePrograms == WrikeScripts \cup { "wrike_sync" }
Programs == WrikePrograms \cup { "companies", "contacts", "deals", "line_items" }

\* variant: no script tests its configuration up front
ChecksEnvNowhere(p) == FALSE

\* scripts whose main() tests required_vars and returns
ChecksEnvInMain(p) == p \in WrikePrograms \cup { "companies", "contacts" }
\* scripts whose process_* keeps failed_batches and goes on to the next batch
KeepsFailedBatches(p) ==
  p \in WrikeScripts \cup { "companies" }
\* scripts whose run_sync logs each failed batch after the counts
ListsFailedBatches(p) ==
  p \in { "clients", "parentprojects", "childprojects", "companies" }
\* scripts whose load goes on after a batch whose commit raised
ContinuesAfterFailedBatch(p) ==
  p \in WrikeScripts \cup { "companies", "contacts", "line_items" }
\* line items open and close one connection per batch
ConnectsPerBatch(p) == p = "line_items"

RequiredVars ==
  { "token", "NEON_HOST", "NEON_DATABASE", "NEON_USER", "NEON_PASSWORD" }

\* a log record
Report(tag, level) ==
  [ tag |-> tag, level |-> level, counts |-> FALSE, failed |-> << >>,
    outcome |-> "n/a" ]

\* the closing lines of run_sync / sync_deals: the scripts that list their
\* failed batches say "batches FAILED" or "All batches completed
\* successfully"; the others say "completed" whatever the batches did
Summary(p, failed) ==
  [ tag     |-> "summary",
    level   |-> "INFO",
    counts  |-> p # "wrike_sync",
    failed  |-> IF ListsFailedBatches(p) THEN failed ELSE << >>,
    outcome |-> IF ListsFailedBatches(p)
                THEN IF failed = << >> THEN "success" ELSE "failures"
                ELSE "success" ]

\* failed_batch_info
FailedBatchInfo(b) == [ batch_number |-> b, error |-> "commit" ]

\* the return code the dashboard reads: 0 unless an exception left main()
\* or main() called sys.exit(1)
ReturnCode(exc) == IF exc THEN 1 ELSE 0

\* a dashboard that reports every finished run as completed
DashboardStatusAlwaysCompleted(code) == "completed"

\* app.py: 'status': 'completed' if return_code == 0 else 'failed'
DashboardStatus(code) == IF code = 0 THEN "completed" ELSE "failed"

\* variant: the early return is taken before the finally block is entered
LeftOpen(n) == n

\* finally: conn.close()
ClosedInFinally(n) == n + 1

RunInit ==
  /\ program \in Programs
  /\ missing \in {"none"} \cup RequiredVars
  /\ spaces \in IF program \in WrikePrograms
                THEN {"production", "others", "error"} ELSE {"n/a"}
  /\ db_connects \in BOOLEAN
  /\ n_batches \in 0..MaxLoadBatches
  /\ fail_at \in 0..n_batches
  /\ fail_kind \in IF fail_at = 0 THEN {"none"} ELSE {"commit", "lost"}
  /\ main_pc = "main"
  /\ http_requests = 0
  /\ opened = 0
  /\ closed = 0
  /\ batch_no = 0
  /\ batches_committed = 0
  /\ failed_list = << >>
  /\ reports = << >>
  /\ raised = FALSE
  /\ exit_code = -1
  /\ LoopsOff
  /\ ColumnsOff
  /\ ExtractOff
  /\ CombinedOff
  /\ CoerceOff
  /\ LookupOff
  /\ RaceOff
  /\ LineOff
  /\ DashOff
  /\ DealOff

\* what no step of the invocation touches
outsideRun == << vars, columnVars, extractVars, combinedVars, coerceVars,
                 lookupVars,
    raceVars,
    lineVars,
    dashVars,
    dealVars >>

\* main() and the constructor: the required variables are tested before
\* anything else. The Wrike scripts, companies and contacts log and return;
\* the constructors of deals and line items raise ValueError, which main()
\* turns into sys.exit(1); a missing token in the line-item script is found
\* by get_all_line_items.
Main ==
  /\ main_pc = "main"
  /\ IF missing # "none" /\ ChecksEnvInMain(program)
     THEN /\ reports' = Append(reports, Report("missing_config", "ERROR"))
          /\ exit_code' = ReturnCode(FALSE)
          /\ main_pc' = "exited"
          /\ UNCHANGED raised
     ELSE IF missing # "none" /\
             (program = "deals" \/ (program = "line_items" /\ missing # "token"))
     THEN /\ reports' = Append(reports, Report("sync_failed", "ERROR"))
          /\ raised' = TRUE
          /\ exit_code' = ReturnCode(TRUE)
          /\ main_pc' = "exited"
     ELSE /\ main_pc' = IF program \in WrikePrograms THEN "space"
                        ELSE IF program = "line_items" THEN "extract"
                        ELSE "connect"
          /\ UNCHANGED << reports, raised, exit_code >>
  /\ UNCHANGED << runInputs, http_requests, opened, closed, batch_no,
                  batches_committed, failed_list, outsideRun >>

\* run_sync of a Wrike script: get_production_space(), and the return when
\* it yields None
GetProductionSpace ==
  /\ main_pc = "space"
  /\ http_requests' = http_requests + 1
  /\ IF spaces = "production"
     THEN /\ main_pc' = "connect"
          /\ UNCHANGED << reports, exit_code >>
     ELSE /\ reports' =
               (IF spaces = "error"
                THEN Append(reports, Report("spaces_request_failed", "ERROR"))
                ELSE reports)
               \o << Report("space_not_found", "WARNING"),
                     Report("space_not_found", "ERROR") >>
          /\ exit_code' = ReturnCode(FALSE)
          /\ main_pc' = "exited"
  /\ UNCHANGED << runInputs, opened, closed, batch_no, batches_committed,
                  failed_list, raised, outsideRun >>

\* connect_db(): psycopg2.connect, logged and re-raised on failure; run_sync
\* logs "sync failed" and re-raises, and the exception leaves main()
ConnectDb ==
  /\ main_pc = "connect"
  /\ IF db_connects
     THEN /\ opened' = opened + 1
          /\ main_pc' = IF program \in { "deals", "wrike_sync" } THEN "load"
                        ELSE "extract"
          /\ UNCHANGED << reports, raised, exit_code >>
     ELSE /\ reports' = reports \o << Report("connect_failed", "ERROR"),
                                      Report("sync_failed", "ERROR") >>
          /\ raised' = TRUE
          /\ exit_code' = ReturnCode(TRUE)
          /\ main_pc' = "exited"
          /\ UNCHANGED opened
  /\ UNCHANGED << runInputs, http_requests, closed, batch_no,
                  batches_committed, failed_list, outsideRun >>

\* the extraction of run_sync: get_folders_by_type / get_all_companies /
\* get_all_contacts / get_all_line_items, and the early return of the
\* HubSpot scripts on an empty list (inside try/finally for companies and
\* contacts)
Extract ==
  /\ main_pc = "extract"
  /\ IF program = "line_items" /\ missing = "token"
     THEN /\ reports' = reports \o << Report("token_missing", "ERROR"),
                                      Report("nothing_to_load", "WARNING") >>
          /\ exit_code' = ReturnCode(FALSE)
          /\ main_pc' = "exited"
          /\ UNCHANGED << http_requests, closed >>
     ELSE IF program \in { "companies", "contacts", "line_items" } /\ n_batches = 0
     THEN /\ http_requests' = http_requests + 1
          /\ reports' = Append(reports, Report("nothing_to_load", "WARNING"))
          /\ closed' = IF ConnectsPerBatch(program) THEN closed
                       ELSE ClosedInFinally(closed)
          /\ exit_code' = ReturnCode(FALSE)
          /\ main_pc' = "exited"
     ELSE /\ http_requests' = http_requests + 1
          /\ main_pc' = "load"
          /\ UNCHANGED << reports, closed, exit_code >>
  /\ UNCHANGED << runInputs, opened, batch_no, batches_committed,
                  failed_list, raised, outsideRun >>

\* the next batch (page for deals, entity type for wrike_sync) commits
BatchCommits ==
  /\ main_pc = "load"
  /\ batch_no < n_batches
  /\ fail_at # batch_no + 1
  /\ batch_no' = batch_no + 1
  /\ batches_committed' = batches_committed + 1
  /\ opened' = IF ConnectsPerBatch(program) THEN opened + 1 ELSE opened
  /\ closed' = IF ConnectsPerBatch(program) THEN ClosedInFinally(closed)
               ELSE closed
  /\ http_requests' = IF program \in { "deals", "wrike_sync" }
                      THEN http_requests + 1 ELSE http_requests
  /\ UNCHANGED << runInputs, main_pc, failed_list, reports, raised, exit_code,
                  outsideRun >>

\* conn.commit() of the next batch raises on a live connection: the batch
\* scripts roll back, record the batch and go on; process_line_item_batch
\* returns 0; sync_deals and wrike_sync let the exception out
BatchCommitRaises ==
  /\ main_pc = "load"
  /\ batch_no < n_batches
  /\ fail_at = batch_no + 1 /\ fail_kind = "commit"
  /\ batch_no' = batch_no + 1
  /\ opened' = IF ConnectsPerBatch(program) THEN opened + 1 ELSE opened
  /\ closed' = IF ConnectsPerBatch(program) THEN ClosedInFinally(closed)
               ELSE closed
  /\ http_requests' = IF program \in { "deals", "wrike_sync" }
                      THEN http_requests + 1 ELSE http_requests
  /\ reports' = Append(reports, Report("batch_failed", "ERROR"))
  /\ failed_list' = IF KeepsFailedBatches(program)
                    THEN Append(failed_list, FailedBatchInfo(batch_no + 1))
                    ELSE failed_list
  /\ IF ContinuesAfterFailedBatch(program)
     THEN UNCHANGED << main_pc, raised >>
     ELSE main_pc' = "finally" /\ raised' = TRUE
  /\ UNCHANGED << runInputs, batches_committed, exit_code, outsideRun >>

\* the connection is lost during the next batch: commit raises, and so does
\* the rollback of the handler, so the exception leaves the load
ConnectionLost ==
  /\ main_pc = "load"
  /\ batch_no < n_batches
  /\ fail_at = batch_no + 1 /\ fail_kind = "lost"
  /\ batch_no' = batch_no + 1
  /\ opened' = IF ConnectsPerBatch(program) THEN opened + 1 ELSE opened
  /\ closed' = IF ConnectsPerBatch(program) THEN ClosedInFinally(closed)
               ELSE closed
  /\ http_requests' = IF program \in { "deals", "wrike_sync" }
                      THEN http_requests + 1 ELSE http_requests
  /\ main_pc' = "finally"
  /\ raised' = TRUE
  /\ UNCHANGED << runInputs, batches_committed, failed_list, reports,
                  exit_code, outsideRun >>

\* the load has returned: the closing lines of run_sync
Summarise ==
  /\ main_pc = "load"
  /\ batch_no = n_batches
  /\ reports' = Append(reports, Summary(program, failed_list))
  /\ main_pc' = "finally"
  /\ UNCHANGED << runInputs, http_requests, opened, closed, batch_no,
                  batches_committed, failed_list, raised, exit_code,
                  outsideRun >>

\* finally: conn.close(); then return, or except: log, raise
Finally ==
  /\ main_pc = "finally"
  /\ closed' = IF ConnectsPerBatch(program) THEN closed
               ELSE ClosedInFinally(closed)
  /\ reports' = IF raised THEN Append(reports, Report("sync_failed", "ERROR"))
                ELSE reports
  /\ exit_code' = ReturnCode(raised)
  /\ main_pc' = "exited"
  /\ UNCHANGED << runInputs, http_requests, opened, batch_no,
                  batches_committed, failed_list, raised, outsideRun >>

RunNext ==
  \/ Main
  \/ GetProductionSpace
  \/ ConnectDb
  \/ Extract
  \/ BatchCommits
  \/ BatchCommitRaises
  \/ ConnectionLost
  \/ Summarise
  \/ Finally

RunSpec == RunInit /\ [][RunNext]_runVars

\* the invocation has ended
Exited == main_pc = "exited"

\* the Production space could not be resolved
ContainerNotFound ==
  program \in WrikePrograms /\ missing = "none" /\ spaces # "production"

\* the run ended on its setup: no container, no connection, or the
\* connection lost before any batch was committed
SetupFailed ==
  \/ ContainerNotFound
  \/ missing = "none" /\ main_pc = "exited" /\ opened = 0 /\ ~db_connects
       /\ ~ConnectsPerBatch(program)
  \/ raised /\ fail_kind = "lost" /\ batches_committed = 0

\* the summaries the run has logged
Summaries == { i \in 1..Len(reports) : reports[i].tag = "summary" }

\* how often the run has logged the given condition
Reported(tag) ==
  Cardinality({ i \in 1..Len(reports) : reports[i].tag = tag })

\* ===================================================================
\* WrikeNeonSync.run_sync: clients, parent projects, child projects with
\* their tasks and deliverables, on one connection
\* ===================================================================
\* an executed statement, or a commit
Write(kind, id, of) == [ kind |-> kind, id |-> id, of |-> of ]
Commit(kind) == Write("commit", 0, kind)

\* variant: the child projects are processed before the parent projects
PhaseAfterChildrenFirst(ph) ==
  IF ph = "clients" THEN "children"
  ELSE IF ph = "children" THEN "parents"
  ELSE "done"

\* run_sync: process_clients, process_parent_projects,
\* process_child_projects, in that order
PhaseAfter(ph) ==
  IF ph = "clients" THEN "parents"
  ELSE IF ph = "parents" THEN "children"
  ELSE "done"

\* the records the phase has to write
PhaseCount(ph) ==
  IF ph = "clients" THEN n_clients
  ELSE IF ph = "parents" THEN n_parents
  ELSE n_children

\* the kind of row the phase writes
PhaseKind(ph) ==
  IF ph = "clients" THEN "client"
  ELSE IF ph = "parents" THEN "parent"
  ELSE "child"

Phases == { "clients", "parents", "children" }

CombinedInit ==
  /\ n_clients \in 0..MaxEntities
  /\ n_parents \in 0..MaxEntities
  /\ n_children \in 0..MaxEntities
  /\ n_tasks \in 0..MaxEntities
  /\ raises_in \in {"none"} \cup Phases \cup {"tasks"}
  /\ phase = "clients"
  /\ position = 0
  /\ task_position = 0
  /\ writes = << >>
  /\ LoopsOff
  /\ ColumnsOff
  /\ ExtractOff
  /\ RunOff
  /\ CoerceOff
  /\ LookupOff
  /\ RaceOff
  /\ LineOff
  /\ DashOff
  /\ DealOff

\* what the combined run never touches
outsideCombined == << vars, columnVars, extractVars, runVars, coerceVars,
                      lookupVars,
    raceVars,
    lineVars,
    dashVars,
    dealVars >>

\* the tasks of the current child project are still to be handled
InTasks ==
  phase = "children" /\ position > 0 /\ task_position < n_tasks

\* cursor.execute of the next client, parent project or child project
ExecuteEntity ==
  /\ phase \in Phases
  /\ ~InTasks
  /\ position < PhaseCount(phase)
  /\ raises_in # phase
  /\ writes' = Append(writes, Write(PhaseKind(phase), position + 1, 0))
  /\ position' = position + 1
  /\ task_position' = 0
  /\ UNCHANGED << combinedInputs, phase, outsideCombined >>

\* process_tasks_and_deliverables of the child project just written: the
\* next task or deliverable is updated or inserted, or skipped because
\* parent_exists finds no row for its parent
ExecuteTask ==
  /\ InTasks
  /\ raises_in # "tasks"
  /\ \E skip \in BOOLEAN :
       writes' = IF skip THEN writes
                 ELSE Append(writes, Write("task", task_position + 1, position))
  /\ task_position' = task_position + 1
  /\ UNCHANGED << combinedInputs, phase, position, outsideCombined >>

\* conn.commit() at the end of process_clients / process_parent_projects /
\* process_child_projects
CommitPhase ==
  /\ phase \in Phases
  /\ ~InTasks
  /\ position = PhaseCount(phase)
  /\ writes' = Append(writes, Commit(phase))
  /\ phase' = PhaseAfter(phase)
  /\ position' = 0
  /\ task_position' = 0
  /\ UNCHANGED << combinedInputs, outsideCombined >>

\* a statement raises: nothing catches it below run_sync, which closes the
\* connection (the open transaction is rolled back) and re-raises
StatementRaises ==
  /\ \/ phase \in Phases /\ ~InTasks /\ position < PhaseCount(phase)
          /\ raises_in = phase
     \/ InTasks /\ raises_in = "tasks"
  /\ phase' = "raised"
  /\ UNCHANGED << combinedInputs, position, task_position, writes,
                  outsideCombined >>

CombinedNext ==
  \/ ExecuteEntity
  \/ ExecuteTask
  \/ CommitPhase
  \/ StatementRaises

CombinedSpec == CombinedInit /\ [][CombinedNext]_combinedVars

\* the positions in the write log of the statements of one kind
WritesOf(kind) == { i \in 1..Len(writes) : writes[i].kind = kind }

\* the position of the commit of a phase, 0 if it has not happened
CommitOf(ph) ==
  LET c == { i \in 1..Len(writes) : writes[i] = Commit(ph) }
  IN  IF c = {} THEN 0 ELSE CHOOSE i \in c : TRUE

\* ===================================================================
\* The safe_* coercion functions of the HubSpot scripts
\* ===================================================================
\* A Python value, as far as the coercions can tell values apart: its type,
\* its form, and for a number (or a string of digits) its decimal exponent:
\* the value 10^mag.
Raw(type, form, mag) == [ type |-> type, form |-> form, mag |-> mag ]

PyNone == Raw("NoneType", "None", 0)
PyTrue == Raw("bool", "True", 0)
PyFalse == Raw("bool", "False", 0)
PyInf == Raw("float", "inf", 0)
PyNan == Raw("float", "nan", 0)

\* the largest power of ten a Python float holds (1e308); float(10**309)
\* raises OverflowError and float('1e309') is inf
FLOAT_MAX_EXP == 308
\* datetime.fromtimestamp: up to 10^11 seconds the year is at most 9999
YEAR_MAX_EXP == 11
\* up to 10^16 seconds fromtimestamp raises ValueError (year out of range);
\* above, localtime() fails and it raises OSError
LOCALTIME_MAX_EXP == 16
\* above 10^18 seconds the value does not fit time_t: OverflowError
TIME_T_MAX_EXP == 18
\* int(value) > 1e10 in the deals script: the value is in milliseconds
MS_THRESHOLD_EXP == 10
\* value / 1000
MS_EXP == 3
\* len(value) > 10 in safe_datetime of companies and contacts
ISO_MIN_LEN == 10

\* the exponents of the numbers handed to the coercions: 1, seconds, a
\* millisecond timestamp of 2001, and timestamps beyond the year 9999, beyond
\* localtime(), beyond time_t and beyond the floats
Exponents == { 0, MS_THRESHOLD_EXP, 12, 17, 20, 23, MaxExponent }

\* the text of a string value, by form: its length and the characters the
\* coercions look for
StrForms ==
  { "empty",       \* ''
    "blank",       \* '   '
    "garbage",     \* 'abc'
    "quote",       \* "it's"
    "true",        \* 'true'
    "TRUE",        \* 'TRUE'
    "false",       \* 'false'
    "iso",         \* '2024-01-01T00:00:00Z'
    "date",        \* '2024-01-01'
    "dashed",      \* 'not-a-date-at-all'
    "decimal",     \* '12.5'
    "inf",         \* 'inf', 'Infinity'
    "nan" }        \* 'nan'

StrLen(v) ==
  CASE v.form = "empty" -> 0
    [] v.form \in { "blank", "garbage", "inf", "nan" } -> 3
    [] v.form \in { "quote", "true", "TRUE", "decimal" } -> 4
    [] v.form = "false" -> 5
    [] v.form = "date" -> ISO_MIN_LEN
    [] v.form \in { "iso", "dashed", "escaped", "repr" } -> ISO_MIN_LEN + 7
    [] OTHER -> v.mag + 1          \* digits, or '1e' and the exponent

HasT(v) == v.type = "str" /\ v.form \in { "iso", "TRUE" }
HasDash(v) == v.type = "str" /\ v.form \in { "iso", "date", "dashed" }
IsDigit(v) == v.type = "str" /\ v.form = "digits"
IsEmptyStr(v) == v.type = "str" /\ v.form = "empty"
IsNumber(v) == v.type \in { "int", "float", "bool" }

RawInputs ==
  { PyNone, PyTrue, PyFalse, PyInf, PyNan, Raw("list", "list", 0),
    Raw("int", "zero", 0),            \* 0
    Raw("float", "zero", 0),          \* 0.0
    Raw("float", "fraction", 0) }     \* 0.5
  \cup { Raw("str", f, 0) : f \in StrForms }
  \cup { Raw("str", "digits", m) : m \in Exponents }
  \cup { Raw("str", "exp", m) : m \in Exponents }
  \cup { Raw("int", "int", m) : m \in Exponents }
  \cup { Raw("float", "finite", m) : m \in Exponents \ {MaxExponent} }

\* the outcome of a call
Returns(v) == [ out |-> "returns", exc |-> "none", py |-> v ]
Raises(x) == [ out |-> "raises", exc |-> x, py |-> PyNone ]
Uncalled == [ out |-> "uncalled", exc |-> "none", py |-> PyNone ]

\* except (classes): <fallback>
Except(result, classes, fallback) ==
  IF result.out = "raises" /\ result.exc \in classes THEN fallback ELSE result

\* except (ValueError, TypeError): the clause of companies and contacts and
\* of every safe_number, safe_integer and safe_boolean
ValueOrType == { "ValueError", "TypeError" }
\* except (ValueError, TypeError, OSError): the clause of safe_datetime and
\* safe_date in deals and line items
ValueTypeOrOS == { "ValueError", "TypeError", "OSError" }

\* float(value)
PyFloat(v) ==
  CASE v.type \in { "NoneType", "list" } -> Raises("TypeError")
    [] v.type = "bool" ->
         Returns(Raw("float", IF v = PyTrue THEN "finite" ELSE "zero", 0))
    [] v.type = "float" -> Returns(v)
    [] v.type = "int" ->
         IF v.form = "zero" THEN Returns(Raw("float", "zero", 0))
         ELSE IF v.mag > FLOAT_MAX_EXP THEN Raises("OverflowError")
         ELSE Returns(Raw("float", "finite", v.mag))
    [] OTHER ->
         CASE v.form \in { "digits", "exp" } ->
                IF v.mag > FLOAT_MAX_EXP THEN Returns(PyInf)
                ELSE Returns(Raw("float", "finite", v.mag))
           [] v.form = "decimal" -> Returns(Raw("float", "finite", 1))
           [] v.form = "inf" -> Returns(PyInf)
           [] v.form = "nan" -> Returns(PyNan)
           [] OTHER -> Raises("ValueError")

\* int(value)
PyInt(v) ==
  CASE v.type \in { "NoneType", "list" } -> Raises("TypeError")
    [] v.type = "bool" ->
         Returns(Raw("int", IF v = PyTrue THEN "int" ELSE "zero", 0))
    [] v.type = "int" -> Returns(v)
    [] v.type = "float" ->
         CASE v.form = "inf" -> Raises("OverflowError")
           [] v.form = "nan" -> Raises("ValueError")
           [] v.form \in { "zero", "fraction" } ->  \* truncates towards 0
                Returns(Raw("int", "zero", 0))
           [] OTHER -> Returns(Raw("int", "int", v.mag))
    [] OTHER ->
         IF v.form = "digits" THEN Returns(Raw("int", "int", v.mag))
         ELSE Raises("ValueError")

\* value / 1000, for a number
DivThousand(v) ==
  CASE v.type = "float" /\ v.form # "finite" -> Returns(v)
    [] v.type = "int" /\ v.form = "zero" -> Returns(Raw("float", "zero", 0))
    [] v.type = "int" /\ v.mag - MS_EXP > FLOAT_MAX_EXP ->
         Raises("OverflowError")
    [] OTHER ->
         Returns(Raw("float", "finite",
                     IF v.mag < MS_EXP THEN 0 ELSE v.mag - MS_EXP))

\* datetime.fromtimestamp(timestamp), followed by isoformat() or strftime()
FromTimestamp(t) ==
  CASE t.type = "float" /\ t.form = "inf" -> Raises("OverflowError")
    [] t.type = "float" /\ t.form = "nan" -> Raises("ValueError")
    [] t.mag <= YEAR_MAX_EXP -> Returns(Raw("str", "iso", 0))
    [] t.mag <= LOCALTIME_MAX_EXP -> Raises("ValueError")
    [] t.mag <= TIME_T_MAX_EXP -> Raises("OSError")
    [] OTHER -> Raises("OverflowError")

\* int(float(value)): an exception of float() leaves the expression
IntOfFloat(v) ==
  LET f == PyFloat(v)
  IN  IF f.out = "raises" THEN f ELSE PyInt(f.py)

\* datetime.fromtimestamp(value / 1000), for a number
MsToDatetime(v) ==
  LET q == DivThousand(v)
  IN  IF q.out = "raises" THEN q ELSE FromTimestamp(q.py)

\* str(value)
PyStr(v) == IF v.type = "str" THEN v ELSE Raw("str", "repr", v.mag)
\* .replace("'", "''")
Escaped(s) == IF s.form = "quote" THEN Raw("str", "escaped", 0) ELSE s
\* .strip()
Stripped(s) == IF s.form = "blank" THEN Raw("str", "empty", 0) ELSE s
\* value.lower() in ('true', '1', 'yes', 'on')
InTrueWords(s) ==
  s.form \in { "true", "TRUE" } \/ (s.form = "digits" /\ s.mag = 0)
\* bool(value), for a number or a list
NonZero(v) == v.form # "zero"
PyBool(b) == IF b THEN PyTrue ELSE PyFalse

HubSpotScripts == { "companies", "contacts", "deals", "line_items" }
EscapingScripts == { "companies", "contacts" }

\* the coercion functions a script defines
Functions(s) ==
  { "safe_string", "safe_number", "safe_boolean", "safe_datetime" }
  \cup (IF s \in { "deals", "line_items" } THEN { "safe_integer" } ELSE {})
  \cup (IF s = "line_items" THEN { "safe_date" } ELSE {})

\* the exceptions the try block of safe_datetime (safe_date) catches
CaughtByDatetime(s) ==
  IF s \in EscapingScripts THEN ValueOrType ELSE ValueTypeOrOS

safe_string_of(s, v) ==
  CASE s \in EscapingScripts ->
         IF v.type = "NoneType" THEN Returns(Raw("str", "empty", 0))
         ELSE Returns(Escaped(PyStr(v)))
    [] s = "deals" ->
         IF v.type = "NoneType" \/ IsEmptyStr(Stripped(PyStr(v)))
         THEN Returns(PyNone)
         ELSE Returns(Stripped(PyStr(v)))
    [] OTHER ->
         IF v.type = "NoneType" \/ IsEmptyStr(v) THEN Returns(PyNone)
         ELSE Returns(Escaped(PyStr(v)))

safe_number_of(s, v) ==
  IF v.type = "NoneType" \/ IsEmptyStr(v) THEN Returns(PyNone)
  ELSE Except(PyFloat(v), ValueOrType, Returns(PyNone))

safe_integer_of(s, v) ==
  IF v.type = "NoneType" \/ IsEmptyStr(v) THEN Returns(PyNone)
  ELSE Except(IntOfFloat(v), ValueOrType, Returns(PyNone))

safe_boolean_of(s, v) ==
  CASE v.type = "NoneType" \/ IsEmptyStr(v) -> Returns(PyNone)
    [] v.type = "bool" -> Returns(v)
    [] v.type = "str" -> Returns(PyBool(InTrueWords(v)))
    [] OTHER ->
         IF s \in EscapingScripts THEN Returns(PyBool(NonZero(v)))
         ELSE LET i == PyInt(v)          \* bool(int(value))
              IN  Except(IF i.out = "raises" THEN i
                         ELSE Returns(PyBool(NonZero(i.py))),
                         ValueOrType, Returns(PyNone))

\* the timestamp branch of each script
TimestampOf(s, v) ==
  LET i == PyInt(v)
  IN  CASE s \in EscapingScripts -> MsToDatetime(v)
        [] i.out = "raises" -> i
        [] s = "deals" ->
             IF i.py.mag > MS_THRESHOLD_EXP THEN MsToDatetime(i.py)
             ELSE FromTimestamp(i.py)
        [] OTHER -> MsToDatetime(i.py)

safe_datetime_of(s, v) ==
  CASE v.type = "NoneType" \/ IsEmptyStr(v) -> Returns(PyNone)
    [] s \in EscapingScripts ->
         IF IsNumber(v)
         THEN Except(TimestampOf(s, v), CaughtByDatetime(s), Returns(PyNone))
         ELSE IF v.type = "str" /\ StrLen(v) > ISO_MIN_LEN
                 /\ (HasT(v) \/ HasDash(v))
         THEN Returns(v)
         ELSE Returns(PyNone)
    [] s = "deals" ->
         IF IsNumber(v) \/ IsDigit(v)
         THEN Except(TimestampOf(s, v), CaughtByDatetime(s), Returns(PyNone))
         ELSE IF HasT(Stripped(v)) THEN Returns(Stripped(v))
         ELSE Returns(PyNone)
    [] OTHER ->
         IF HasT(v) THEN Returns(v)
         ELSE Except(TimestampOf(s, v), CaughtByDatetime(s), Returns(PyNone))

safe_date_of(s, v) ==
  CASE v.type = "NoneType" \/ IsEmptyStr(v) -> Returns(PyNone)
    [] HasDash(v) -> Returns(v)
    [] OTHER ->
         Except(TimestampOf(s, v), CaughtByDatetime(s), Returns(PyNone))

CoerceInit ==
  /\ coerce_script \in HubSpotScripts
  /\ raw \in RawInputs
  /\ coerced = [ f \in Functions(coerce_script) |-> Uncalled ]
  /\ LoopsOff
  /\ ColumnsOff
  /\ ExtractOff
  /\ RunOff
  /\ CombinedOff
  /\ LookupOff
  /\ RaceOff
  /\ LineOff
  /\ DashOff
  /\ DealOff

\* what no coercion touches
outsideCoerce == << vars, columnVars, extractVars, runVars, combinedVars,
                    lookupVars,
    raceVars,
    lineVars,
    dashVars,
    dealVars >>

\* one call of safe_string on the raw value (every script)
SafeString ==
  /\ "safe_string" \in DOMAIN coerced
  /\ coerced["safe_string"] = Uncalled
  /\ coerced' = [ coerced EXCEPT
                    !["safe_string"] = safe_string_of(coerce_script, raw) ]
  /\ UNCHANGED << coerce_script, raw, outsideCoerce >>

\* one call of safe_number on the raw value (every script)
SafeNumber ==
  /\ "safe_number" \in DOMAIN coerced
  /\ coerced["safe_number"] = Uncalled
  /\ coerced' = [ coerced EXCEPT
                    !["safe_number"] = safe_number_of(coerce_script, raw) ]
  /\ UNCHANGED << coerce_script, raw, outsideCoerce >>

\* one call of safe_integer on the raw value (deals and line items)
SafeInteger ==
  /\ "safe_integer" \in DOMAIN coerced
  /\ coerced["safe_integer"] = Uncalled
  /\ coerced' = [ coerced EXCEPT
                    !["safe_integer"] = safe_integer_of(coerce_script, raw) ]
  /\ UNCHANGED << coerce_script, raw, outsideCoerce >>

\* one call of safe_boolean on the raw value (every script)
SafeBoolean ==
  /\ "safe_boolean" \in DOMAIN coerced
  /\ coerced["safe_boolean"] = Uncalled
  /\ coerced' = [ coerced EXCEPT
                    !["safe_boolean"] = safe_boolean_of(coerce_script, raw) ]
  /\ UNCHANGED << coerce_script, raw, outsideCoerce >>

\* one call of safe_datetime on the raw value (every script)
SafeDatetime ==
  /\ "safe_datetime" \in DOMAIN coerced
  /\ coerced["safe_datetime"] = Uncalled
  /\ coerced' = [ coerced EXCEPT
                    !["safe_datetime"] = safe_datetime_of(coerce_script, raw) ]
  /\ UNCHANGED << coerce_script, raw, outsideCoerce >>

\* one call of safe_date on the raw value (line items)
SafeDate ==
  /\ "safe_date" \in DOMAIN coerced
  /\ coerced["safe_date"] = Uncalled
  /\ coerced' = [ coerced EXCEPT
                    !["safe_date"] = safe_date_of(coerce_script, raw) ]
  /\ UNCHANGED << coerce_script, raw, outsideCoerce >>

CoerceNext ==
  \/ SafeString
  \/ SafeNumber
  \/ SafeInteger
  \/ SafeBoolean
  \/ SafeDatetime
  \/ SafeDate

CoerceSpec == CoerceInit /\ [][CoerceNext]_coerceVars

\* the functions that have been called
Called == { f \in DOMAIN coerced : coerced[f] # Uncalled }

\* ===================================================================
\* parent_exists(parent_id, cursor)
\* ===================================================================
\* the scripts that define parent_exists; wrike_sync.py is the combined run
LookupScripts == { "parentprojects", "deliverables", "tasks", "wrike_sync" }

\* ids a parent table may hold
ParentRowIds == { ROOT_PARENT, ROOT_ID }
\* parent ids of the records: parentIds[0], None when the list is empty
AskedIds == { None, "" } \cup ParentRowIds

\* SELECT 1 FROM <parent table> WHERE wrike_id = %s LIMIT 1; fetchone()
FetchOne(table, parent_id) ==
  IF \E r \in table : r = parent_id THEN << 1 >> ELSE None

\* parent_exists without the early returns: the id is always looked up
ParentLookupAlwaysQueries(s, parent_id, table) ==
  [ answer |-> FetchOne(table, parent_id) # None, executed |-> 1 ]

\* the body of parent_exists of script s: its answer and the number of
\* statements it executes on the cursor
ParentLookup(s, parent_id, table) ==
  IF parent_id \in { None, "" }                    \* if not parent_id:
  THEN [ answer |-> TRUE, executed |-> 0 ]
  ELSE IF s = "tasks" /\ parent_id = ROOT_ID
  THEN [ answer |-> FALSE, executed |-> 0 ]
  ELSE [ answer |-> FetchOne(table, parent_id) # None, executed |-> 1 ]

LookupInit ==
  /\ lookup_script \in LookupScripts
  /\ parent_table \in SUBSET ParentRowIds
  /\ lookups = << >>
  /\ statements = 0
  /\ LoopsOff
  /\ ColumnsOff
  /\ ExtractOff
  /\ RunOff
  /\ CombinedOff
  /\ CoerceOff
  /\ RaceOff
  /\ LineOff
  /\ DashOff
  /\ DealOff

\* what parent_exists never touches
outsideLookup == << vars, columnVars, extractVars, runVars, combinedVars,
                   coerceVars,
    raceVars,
    lineVars,
    dashVars,
    dealVars >>

\* one call of parent_exists for the parent id of a record
ParentExists ==
  /\ Len(lookups) < MaxLookups
  /\ \E parent_id \in AskedIds :
       LET r == ParentLookup(lookup_script, parent_id, parent_table)
       IN  /\ lookups' = Append(lookups, [ id |-> parent_id,
                                           answer |-> r.answer,
                                           executed |-> r.executed ])
           /\ statements' = statements + r.executed
  /\ UNCHANGED << lookup_script, parent_table, outsideLookup >>

LookupNext == ParentExists

LookupSpec == LookupInit /\ [][LookupNext]_lookupVars

\* the calls made so far
Lookups == { lookups[i] : i \in 1..Len(lookups) }

\* ===================================================================
\* Two runs upserting the same id with the update-then-insert statement
\* ===================================================================
\* PostgreSQL at its default isolation level (READ COMMITTED; the scripts set
\* none): a statement sees the rows committed before it started; an UPDATE
\* of a row another transaction has updated waits for that transaction; an
\* INSERT of a key another transaction has inserted waits too when the
\* column has a unique index, and fails with a unique violation once that
\* transaction commits. The schema is not part of the repository, so the
\* index on wrike_id is an input.
Runs == { "A", "B" }
Other(r) == IF r = "A" THEN "B" ELSE "A"

\* the id both runs hold, first in their batch
SHARED_ID == 1
\* the id of the record at position k of the batch of run r: the shared id,
\* then an id of its own
IdAt(r, k) ==
  IF k = 1 THEN SHARED_ID ELSE IF r = "A" THEN k ELSE MaxRaceRecords + k

TableRow(id, val, by) == [ id |-> id, val |-> val, by |-> by ]

RaceInit ==
  /\ race_entity \in { "deliverables", "tasks" }
  /\ unique_key \in BOOLEAN
  /\ race_records \in 1..MaxRaceRecords
  /\ table_rows \in { {}, { TableRow(SHARED_ID, "old", "before") } }
  /\ session = [ r \in Runs |-> "running" ]
  /\ session_txn = [ r \in Runs |-> "open" ]
  /\ handled = [ r \in Runs |-> 0 ]
  /\ pending = [ r \in Runs |-> {} ]
  /\ tally = [ r \in Runs |-> [ processed |-> 0, skipped |-> 0 ] ]
  /\ LoopsOff
  /\ ColumnsOff
  /\ ExtractOff
  /\ RunOff
  /\ CombinedOff
  /\ CoerceOff
  /\ LookupOff
  /\ LineOff
  /\ DashOff
  /\ DealOff

\* what the two runs never touch
outsideRace == << vars, columnVars, extractVars, runVars, combinedVars,
                 coerceVars, lookupVars,
    lineVars,
    dashVars,
    dealVars >>

\* the id of the record run r handles next
NextId(r) == IdAt(r, handled[r] + 1)

\* a committed row with the id exists: the UPDATE of the statement finds it
Visible(i) == \E row \in table_rows : row.id = i

\* run o has written the id in a transaction that is still open
Holds(o, i) == session[o] # "done" /\ \E w \in pending[o] : w.id = i

\* the inner loop of run r is at a record
AtRecord(r) == session[r] = "running" /\ handled[r] < race_records

\* batch_processed += 1 / batch_skipped += 1
Counted(r, field) ==
  [ tally EXCEPT ![r] = [ @ EXCEPT ![field] = @ + 1 ] ]

\* the writes of a committed transaction applied to the table
Applied(rows, writes_of, r) ==
  { IF \E w \in writes_of : w.id = row.id /\ w.op = "update"
    THEN [ row EXCEPT !.val = r ] ELSE row : row \in rows }
  \cup { TableRow(w.id, r, r) : w \in { x \in writes_of : x.op = "insert" } }

\* cursor.execute(sql, update_params + insert_params): the UPDATE finds the
\* committed row and changes it, or finds none and the INSERT adds the row
ExecuteStatement(r) ==
  /\ AtRecord(r)
  /\ session_txn[r] = "open"
  /\ ~(Holds(Other(r), NextId(r)) /\ (Visible(NextId(r)) \/ unique_key))
  /\ pending' = [ pending EXCEPT ![r] = @ \cup
                    { [ id |-> NextId(r),
                        op |-> IF Visible(NextId(r)) THEN "update"
                               ELSE "insert" ] } ]
  /\ tally' = Counted(r, "processed")
  /\ handled' = [ handled EXCEPT ![r] = @ + 1 ]
  /\ UNCHANGED << raceInputs, table_rows, session, session_txn, outsideRace >>

\* cursor.execute blocks: the other run has updated the row, or has
\* inserted the key, and has not committed yet
ExecuteWaits(r) ==
  /\ AtRecord(r)
  /\ session_txn[r] = "open"
  /\ Holds(Other(r), NextId(r))
  /\ Visible(NextId(r)) \/ unique_key
  /\ session' = [ session EXCEPT ![r] = IF Visible(NextId(r))
                                        THEN "waiting_row"
                                        ELSE "waiting_key" ]
  /\ UNCHANGED << raceInputs, table_rows, session_txn, handled, pending,
                  tally, outsideRace >>

\* the other run has committed and the UPDATE goes on with the row
ResumeUpdate(r) ==
  /\ session[r] = "waiting_row"
  /\ session[Other(r)] = "done"
  /\ session' = [ session EXCEPT ![r] = "running" ]
  /\ pending' = [ pending EXCEPT ![r] = @ \cup
                    { [ id |-> NextId(r), op |-> "update" ] } ]
  /\ tally' = Counted(r, "processed")
  /\ handled' = [ handled EXCEPT ![r] = @ + 1 ]
  /\ UNCHANGED << raceInputs, table_rows, session_txn, outsideRace >>

\* the other run has committed its row with the same key: the INSERT raises
\* a unique violation; except Exception: batch_skipped += 1; continue
ResumeInsertFails(r) ==
  /\ session[r] = "waiting_key"
  /\ session[Other(r)] = "done"
  /\ Visible(NextId(r))
  /\ session' = [ session EXCEPT ![r] = "running" ]
  /\ session_txn' = [ session_txn EXCEPT ![r] = "aborted" ]
  /\ tally' = Counted(r, "skipped")
  /\ handled' = [ handled EXCEPT ![r] = @ + 1 ]
  /\ UNCHANGED << raceInputs, table_rows, pending, outsideRace >>

\* a statement in the aborted transaction is rejected and the record is
\* skipped
ExecuteInAborted(r) ==
  /\ AtRecord(r)
  /\ session_txn[r] = "aborted"
  /\ tally' = Counted(r, "skipped")
  /\ handled' = [ handled EXCEPT ![r] = @ + 1 ]
  /\ UNCHANGED << raceInputs, table_rows, session, session_txn, pending,
                  outsideRace >>

\* conn.commit() of the batch; on an aborted transaction it rolls back
\* without raising
CommitRun(r) ==
  /\ session[r] = "running"
  /\ handled[r] = race_records
  /\ session' = [ session EXCEPT ![r] = "done" ]
  /\ table_rows' = IF session_txn[r] = "open"
                   THEN Applied(table_rows, pending[r], r)
                   ELSE table_rows
  /\ UNCHANGED << raceInputs, session_txn, handled, pending, tally,
                  outsideRace >>

RaceNext ==
  \E r \in Runs :
    \/ ExecuteStatement(r)
    \/ ExecuteWaits(r)
    \/ ResumeUpdate(r)
    \/ ResumeInsertFails(r)
    \/ ExecuteInAborted(r)
    \/ CommitRun(r)

RaceSpec == RaceInit /\ [][RaceNext]_raceVars

\* both runs have committed their batch
RaceDone == \A r \in Runs : session[r] = "done"

\* the committed rows with the shared id
SharedRows == { row \in table_rows : row.id = SHARED_ID }

\* ===================================================================
\* process_line_item_batch and the batch loop of its run_sync
\* ===================================================================
LineInit ==
  /\ li_batches \in 1..MaxLineBatches
  /\ li_records \in 1..MaxLineRecords
  /\ li_fault_at \in 0..li_batches
  /\ li_fault_kind \in IF li_fault_at = 0 THEN { "none" }
                        ELSE { "connect", "execute", "commit", "lost" }
  /\ li_fault_pos \in IF li_fault_kind = "execute" THEN 1..li_records
                       ELSE { 0 }
  /\ li_pc = "run_sync"
  /\ li_batch = 0
  /\ li_conn = "unbound"
  /\ li_cursor = "unbound"
  /\ li_txn = "none"
  /\ li_pos = 0
  /\ success_count = 0
  /\ li_error = "none"
  /\ li_result = -1
  /\ li_returns = << >>
  /\ li_rollbacks = 0
  /\ li_written = 0
  /\ total_processed = 0
  /\ LoopsOff
  /\ ColumnsOff
  /\ ExtractOff
  /\ RunOff
  /\ CombinedOff
  /\ CoerceOff
  /\ LookupOff
  /\ RaceOff
  /\ DashOff
  /\ DealOff

\* what process_line_item_batch never touches
outsideLine == << vars, columnVars, extractVars, runVars, combinedVars,
                 coerceVars, lookupVars, raceVars,
    dashVars,
    dealVars >>

\* the database fails in the current call, in the given way
FailsNow(kind) == li_fault_at = li_batch /\ li_fault_kind = kind

\* run_sync: processed = self.process_line_item_batch(batch); the locals of
\* the call are unbound, success_count = 0
CallBatch ==
  /\ li_pc = "run_sync"
  /\ li_batch < li_batches
  /\ li_batch' = li_batch + 1
  /\ li_pc' = "connect"
  /\ li_conn' = "unbound"
  /\ li_cursor' = "unbound"
  /\ li_txn' = "none"
  /\ li_pos' = 0
  /\ success_count' = 0
  /\ li_result' = -1
  /\ UNCHANGED << lineInputs, li_error, li_returns, li_rollbacks, li_written,
                  total_processed, outsideLine >>

\* conn = psycopg2.connect(**self.db_config); cursor = conn.cursor()
\* a failure raises psycopg2.OperationalError before conn is bound
ConnectForBatch ==
  /\ li_pc = "connect"
  /\ IF FailsNow("connect")
     THEN /\ li_error' = "psycopg2.Error"
          /\ li_pc' = "except"
          /\ UNCHANGED << li_conn, li_cursor, li_txn >>
     ELSE /\ li_conn' = "open"
          /\ li_cursor' = "open"
          /\ li_txn' = "open"
          /\ li_pc' = "records"
          /\ UNCHANGED li_error
  /\ UNCHANGED << lineInputs, li_batch, li_pos, success_count, li_result,
                  li_returns, li_rollbacks, li_written, total_processed,
                  outsideLine >>

\* one turn of "for line_item in line_items": the statement is executed
\* and counted, or it raises (rejected by the database, or sent in an
\* aborted transaction) and the inner except logs and continues
ExecuteLineItem ==
  /\ li_pc = "records"
  /\ li_pos < li_records
  /\ li_pos' = li_pos + 1
  /\ IF li_txn = "aborted" \/ (FailsNow("execute") /\ li_fault_pos = li_pos + 1)
     THEN li_txn' = "aborted" /\ UNCHANGED success_count
     ELSE success_count' = success_count + 1 /\ UNCHANGED li_txn
  /\ UNCHANGED << lineInputs, li_pc, li_batch, li_conn, li_cursor, li_error,
                  li_result, li_returns, li_rollbacks, li_written,
                  total_processed, outsideLine >>

\* conn.commit(): raises psycopg2.Error when the commit fails or the
\* connection is lost; on an aborted transaction it rolls back silently
CommitLineItems ==
  /\ li_pc = "records"
  /\ li_pos = li_records
  /\ IF FailsNow("commit") \/ FailsNow("lost")
     THEN /\ li_error' = "psycopg2.Error"
          /\ li_conn' = IF FailsNow("lost") THEN "lost" ELSE li_conn
          /\ li_pc' = "except"
          /\ UNCHANGED << li_txn, li_written, li_result >>
     ELSE /\ li_written' = IF li_txn = "open" THEN li_written + success_count
                           ELSE li_written
          /\ li_txn' = "none"
          /\ li_result' = success_count          \* return success_count
          /\ li_pc' = "finally"
          /\ UNCHANGED << li_error, li_conn >>
  /\ UNCHANGED << lineInputs, li_batch, li_cursor, li_pos, success_count,
                  li_returns, li_rollbacks, total_processed, outsideLine >>

\* except psycopg2.Error: if conn: conn.rollback(); return 0
\* reading the unbound local conn raises UnboundLocalError; rollback() on
\* a lost connection raises psycopg2.InterfaceError
HandleDatabaseError ==
  /\ li_pc = "except"
  /\ li_pc' = "finally"
  /\ CASE li_conn = "unbound" ->
            /\ li_error' = "UnboundLocalError"
            /\ UNCHANGED << li_rollbacks, li_txn, li_result >>
       [] li_conn = "lost" ->
            /\ li_error' = "psycopg2.InterfaceError"
            /\ UNCHANGED << li_rollbacks, li_txn, li_result >>
       [] OTHER ->
            /\ li_rollbacks' = li_rollbacks + 1
            /\ li_txn' = "none"
            /\ li_result' = 0
            /\ li_error' = "none"
  /\ UNCHANGED << lineInputs, li_batch, li_conn, li_cursor, li_pos,
                  success_count, li_returns, li_written, total_processed,
                  outsideLine >>

\* finally: if cursor: cursor.close(); if conn: conn.close(); then the
\* call returns its value to run_sync (total_processed += processed)
ReleaseAndReturn ==
  /\ li_pc = "finally"
  /\ li_cursor # "unbound"
  /\ li_error = "none"
  /\ li_cursor' = "closed"
  /\ li_conn' = "closed"
  /\ li_returns' = Append(li_returns, li_result)
  /\ total_processed' = total_processed + li_result
  /\ li_pc' = "run_sync"
  /\ UNCHANGED << lineInputs, li_batch, li_txn, li_pos, success_count,
                  li_error, li_result, li_rollbacks, li_written, outsideLine >>

\* finally with an exception in flight, or with cursor unbound (reading it
\* raises UnboundLocalError): the exception leaves the call; run_sync's
\* except Exception logs it and raises
ReleaseAndRaise ==
  /\ li_pc = "finally"
  /\ li_cursor = "unbound" \/ li_error # "none"
  /\ IF li_cursor = "unbound"
     THEN li_error' = "UnboundLocalError" /\ UNCHANGED << li_cursor, li_conn >>
     ELSE li_cursor' = "closed" /\ li_conn' = "closed" /\ UNCHANGED li_error
  /\ li_pc' = "raised"
  /\ UNCHANGED << lineInputs, li_batch, li_txn, li_pos, success_count,
                  li_result, li_returns, li_rollbacks, li_written,
                  total_processed, outsideLine >>

\* the for loop of run_sync is over: the completion lines are logged
LineSyncCompleted ==
  /\ li_pc = "run_sync"
  /\ li_batch = li_batches
  /\ li_pc' = "done"
  /\ UNCHANGED << lineInputs, li_batch, li_conn, li_cursor, li_txn, li_pos,
                  success_count, li_error, li_result, li_returns,
                  li_rollbacks, li_written, total_processed, outsideLine >>

LineNext ==
  \/ CallBatch
  \/ ConnectForBatch
  \/ ExecuteLineItem
  \/ CommitLineItems
  \/ HandleDatabaseError
  \/ ReleaseAndReturn
  \/ ReleaseAndRaise
  \/ LineSyncCompleted

LineSpec == LineInit /\ [][LineNext]_lineVars

\* the call for the failing batch has returned or raised
FaultHandled ==
  li_fault_at > 0 /\ (Len(li_returns) >= li_fault_at \/ li_pc = "raised")

\* ===================================================================
\* The dashboard: start_sync and the worker thread run_sync_script
\* ===================================================================
Requests == 1..MaxRequests

DashInit ==
  /\ script_exists \in BOOLEAN
  /\ requests = 0
  /\ responses = << >>
  /\ active_sync = [ status |-> "absent", completed |-> FALSE ]
  /\ worker = [ t \in Requests |-> "none" ]
  /\ return_code = [ t \in Requests |-> -1 ]
  /\ sync_history = << >>
  /\ LoopsOff
  /\ ColumnsOff
  /\ ExtractOff
  /\ RunOff
  /\ CombinedOff
  /\ CoerceOff
  /\ LookupOff
  /\ RaceOff
  /\ LineOff
  /\ DealOff

\* what the dashboard never touches
outsideDash == << vars, columnVars, extractVars, runVars, combinedVars,
                 coerceVars, lookupVars, raceVars, lineVars,
    dealVars >>

\* the history record of run t
SyncRecord(t, status) == [ run |-> t, status |-> status ]

\* start_sync: rejected when active_syncs holds status 'running' for the
\* type; otherwise a daemon thread is started and the request is answered
StartSync ==
  /\ requests < MaxRequests
  /\ requests' = requests + 1
  /\ IF active_sync.status = "running"
     THEN /\ responses' = Append(responses, "rejected")
          /\ UNCHANGED worker
     ELSE /\ responses' = Append(responses, "started")
          /\ worker' = [ worker EXCEPT ![requests + 1] = "started" ]
  /\ UNCHANGED << script_exists, active_sync, return_code, sync_history,
                  outsideDash >>

\* run_sync_script: if not os.path.exists(script_name): log, return
ScriptNotFound(t) ==
  /\ worker[t] = "started"
  /\ ~script_exists
  /\ worker' = [ worker EXCEPT ![t] = "finished" ]
  /\ UNCHANGED << script_exists, requests, responses, active_sync,
                  return_code, sync_history, outsideDash >>

\* active_syncs[sync_type] = { ..., 'status': 'running', ... }
MarkRunning(t) ==
  /\ worker[t] = "started"
  /\ script_exists
  /\ active_sync' = [ status |-> "running", completed |-> FALSE ]
  /\ worker' = [ worker EXCEPT ![t] = "marked" ]
  /\ UNCHANGED << script_exists, requests, responses, return_code,
                  sync_history, outsideDash >>

\* process = subprocess.Popen(cmd, ...)
StartProcess(t) ==
  /\ worker[t] = "marked"
  /\ worker' = [ worker EXCEPT ![t] = "spawned" ]
  /\ UNCHANGED << script_exists, requests, responses, active_sync,
                  return_code, sync_history, outsideDash >>

\* Popen raises (no interpreter, no memory): except Exception: status
\* 'failed', one history record with the error
StartProcessFails(t) ==
  /\ worker[t] = "marked"
  /\ active_sync' = [ active_sync EXCEPT !.status = "failed" ]
  /\ sync_history' = Append(sync_history, SyncRecord(t, "failed"))
  /\ worker' = [ worker EXCEPT ![t] = "handled" ]
  /\ UNCHANGED << script_exists, requests, responses, return_code,
                  outsideDash >>

\* the subprocess exits with a return code
ProcessExits(t) ==
  /\ worker[t] = "spawned"
  /\ \E code \in { ReturnCode(FALSE), ReturnCode(TRUE) } :
       return_code' = [ return_code EXCEPT ![t] = code ]
  /\ worker' = [ worker EXCEPT ![t] = "exited" ]
  /\ UNCHANGED << script_exists, requests, responses, active_sync,
                  sync_history, outsideDash >>

\* the read loop ends: return_code = process.poll(); the history record
\* is appended and active_syncs[sync_type]['status'] is set
RecordExit(t) ==
  /\ worker[t] = "exited"
  /\ sync_history' = Append(sync_history,
                           SyncRecord(t, DashboardStatus(return_code[t])))
  /\ active_sync' = [ active_sync EXCEPT
                        !.status = DashboardStatus(return_code[t]) ]
  /\ worker' = [ worker EXCEPT ![t] = "handled" ]
  /\ UNCHANGED << script_exists, requests, responses, return_code,
                  outsideDash >>

\* finally: active_syncs[sync_type]['completed'] = datetime.now()
MarkCompleted(t) ==
  /\ worker[t] = "handled"
  /\ active_sync' = [ active_sync EXCEPT !.completed = TRUE ]
  /\ worker' = [ worker EXCEPT ![t] = "finished" ]
  /\ UNCHANGED << script_exists, requests, responses, return_code,
                  sync_history, outsideDash >>

\* the steps of the worker thread of request t
WorkerStep(t) ==
  \/ ScriptNotFound(t)
  \/ MarkRunning(t)
  \/ StartProcess(t)
  \/ StartProcessFails(t)
  \/ RecordExit(t)
  \/ MarkCompleted(t)

DashNext ==
  \/ StartSync
  \/ \E t \in Requests : WorkerStep(t) \/ ProcessExits(t)

DashSpec == DashInit /\ [][DashNext]_dashVars

\* a started thread is scheduled until it returns
DashLiveSpec ==
  DashSpec /\ \A t \in Requests : WF_dashVars(WorkerStep(t))

\* runs of the type that are in progress: the thread has been started and
\* has not yet recorded the end of its subprocess
InProgress == { t \in Requests : worker[t] \in { "started", "marked",
                                                 "spawned", "exited" } }

\* the sync subprocesses alive
Subprocesses == { t \in Requests : worker[t] = "spawned" }

\* the history records of run t
RecordsOf(t) ==
  { i \in 1..Len(sync_history) : sync_history[i].run = t }

\* ===================================================================
\* sync_deals: how each upserted deal is counted
\* ===================================================================
DealIds == 1..MaxDealId

\* pages of one to MaxDeals deals; an id may come twice
DealPages == UNION { [ 1..n -> DealIds ] : n \in 1..MaxDeals }

DealInit ==
  /\ deal_ids \in DealPages
  /\ deal_table \in SUBSET DealIds
  /\ deal_raises \in 0..MaxDeals
  /\ deal_pos = 0
  /\ deal_stats = NoStats
  /\ existed_before = 0
  /\ deal_pc = "loop"
  /\ LoopsOff
  /\ ColumnsOff
  /\ ExtractOff
  /\ RunOff
  /\ CombinedOff
  /\ CoerceOff
  /\ LookupOff
  /\ RaceOff
  /\ LineOff
  /\ DashOff

\* what sync_deals with the counts never touches
outsideDeal == << vars, columnVars, extractVars, runVars, combinedVars,
                 coerceVars, lookupVars, raceVars, lineVars, dashVars >>

\* cursor.rowcount after INSERT ... ON CONFLICT (id) DO UPDATE of one row:
\* PostgreSQL reports the one affected row, inserted or updated alike
RowCount(existed) == 1

\* upsert_deal: 'created' if cursor.rowcount == 1 else 'updated'
UpsertResult(existed) ==
  IF RowCount(existed) = 1 THEN "created" ELSE "updated"

\* one deal of the loop: map_deal_properties, upsert_deal, the counters
ProcessDeal ==
  /\ deal_pc = "loop"
  /\ deal_pos < Len(deal_ids)
  /\ deal_raises # deal_pos + 1
  /\ LET id == deal_ids[deal_pos + 1]
         existed == id \in deal_table
         result == UpsertResult(existed)
     IN  /\ deal_table' = deal_table \cup { id }
         /\ existed_before' = existed_before + (IF existed THEN 1 ELSE 0)
         /\ deal_stats' =
              [ deal_stats EXCEPT
                  !.created = @ + (IF result = "created" THEN 1 ELSE 0),
                  !.updated = @ + (IF result = "updated" THEN 1 ELSE 0),
                  !.processed = @ + 1 ]
  /\ deal_pos' = deal_pos + 1
  /\ UNCHANGED << deal_ids, deal_raises, deal_pc, outsideDeal >>

\* the deal raises before its statement (no 'id', a property that cannot
\* be mapped): except Exception: errors += 1; continue
DealRaises ==
  /\ deal_pc = "loop"
  /\ deal_pos < Len(deal_ids)
  /\ deal_raises = deal_pos + 1
  /\ deal_stats' = [ deal_stats EXCEPT !.errors = @ + 1 ]
  /\ deal_pos' = deal_pos + 1
  /\ UNCHANGED << deal_ids, deal_table, deal_raises, existed_before, deal_pc,
                  outsideDeal >>

\* conn.commit() after the page's last deal
CommitDeals ==
  /\ deal_pc = "loop"
  /\ deal_pos = Len(deal_ids)
  /\ deal_pc' = "committed"
  /\ UNCHANGED << deal_ids, deal_table, deal_raises, deal_pos, deal_stats,
                  existed_before, outsideDeal >>

DealNext ==
  \/ ProcessDeal
  \/ DealRaises
  \/ CommitDeals

DealSpec == DealInit /\ [][DealNext]_dealVars

\* ===================================================================
\* Reference results, stated from the data rather than from the steps
\* ===================================================================
Batches == 0..(total_batches - 1)

\* batches the logger has reported as completed / as failed in this run
CompletedBatches == { b \in Batches : << "completed", b + 1 >> \in Range(log) }
FailedBatches == { b \in Batches : << "FAILED", b + 1 >> \in Range(log) }

\* the record at position k makes its statement fail in the database
StatementFails(e, k, parentTable) ==
  /\ Rec(k).fault # "pyerr"
  /\ ~(ChecksParent(e) /\ ~parent_exists(e, Rec(k).parent, parentTable))
  /\ Rec(k).fault = "dberr" \/ ForeignKeyViolation(e, Rec(k), parentTable)

\* batch b holds a record whose statement fails
BatchAborts(e, b, parentTable) ==
  \E k \in BatchPositions(b) : StatementFails(e, k, parentTable)

\* the record at position k is valid and its parent, if any, is present
Loadable(e, k, parentTable) ==
  /\ Rec(k).fault = "none"
  /\ ChecksParent(e) => parent_exists(e, Rec(k).parent, parentTable)
  /\ ~ForeignKeyViolation(e, Rec(k), parentTable)

\* positions whose rows a committed batch b makes durable
WrittenBy(e, b, parentTable) ==
  IF BatchAborts(e, b, parentTable) THEN {}
  ELSE { k \in BatchPositions(b) : Loadable(e, k, parentTable) }

WrittenByAll(e, bs, parentTable) ==
  UNION { WrittenBy(e, b, parentTable) : b \in bs }

\* positions of batch b counted as processed when the batch completes
CountedProcessed(e, b, parentTable) ==
  { k \in BatchPositions(b) :
      /\ Loadable(e, k, parentTable)
      /\ \A j \in BatchPositions(b) : j < k => ~StatementFails(e, j, parentTable) }

\* the table after the records at positions S have been upserted at time t
ExpectedAfter(e, table, S, t) ==
  { r \in table : r.id \notin S } \cup
  { IF \E r \in table : r.id = k
    THEN IF e \in HubSpotKinds THEN NewRow(e, Rec(k), t)
         ELSE [ (CHOOSE r \in table : r.id = k) EXCEPT !.val = "v1" ]
    ELSE NewRow(e, Rec(k), t) : k \in S }

Running == pc \in {"loop", "batch"}

\* the last line the logger has emitted
LastLog == IF log = << >> THEN << "none", 0 >> ELSE log[Len(log)]

\* the batch that holds position k (0-based batch number)
BatchOfPos(k) == (k - 1) \div BATCH_SIZE

\* the rows a table holds for the record at position k
RowsOf(table, k) == { r \in table : r.id = Rec(k).id }

\* the rows a table holds for the records of batch b
RowsOfBatch(table, b) ==
  LET ids == { Rec(k).id : k \in BatchPositions(b) }
  IN  { r \in table : r.id \in ids }

\* the table holds the record's row with the values of the source
RowWritten(table, k) == \E r \in table : r.id = Rec(k).id /\ r.val = "v1"

\* the rows left by the given batches of this run, on top of startDest
DestAfter(bs) ==
  ExpectedAfter(entity, startDest, WrittenByAll(entity, bs, parents), now)

\* how often a line occurs in the log
NumLog(line) == Cardinality({ i \in 1..Len(log) : log[i] = line })

UniqueIds(table) == \A r1, r2 \in table : r1.id = r2.id => r1 = r2

WithoutSynced(table) ==
  { [ id |-> r.id, val |-> r.val, created |-> r.created ] : r \in table }

\* ===================================================================
\* Claims
\* ===================================================================

\* C1: when the commit of batch k raises, after the rollback the destination
\* shows none of batch k's writes (its rows are as the run found them or as
\* earlier runs left them), and the rows of every batch that committed
\* in this run are all there.
C1_BatchAtomicity ==
  (pc # "idle" /\ FailedBatches # {}) =>
    /\ dest = DestAfter(CompletedBatches)
    /\ \A b \in FailedBatches : \A k \in BatchPositions(b) :
         RowsOf(dest, k) = RowsOf(startDest, k)
    /\ (pc = "loop" /\ LastLog[1] = "FAILED") => (txn = "none" /\ work = dest)

\* C1 witness: batch 1 committed and is visible, batch 2 had a processed
\* record and its commit raised
C1_Witness ==
  /\ pc = "loop"
  /\ LastLog = << "FAILED", 2 >>
  /\ 0 \in CompletedBatches
  /\ batch_processed > 0
  /\ \A k \in BatchPositions(0) : RowWritten(dest, k)
  /\ RowsOf(dest, BATCH_SIZE + 1) = {}

\* C2 (as claimed): a batch in which exactly one record's upsert raises a
\* caught error and the others are valid commits with the other B-1 rows
\* written, one record skipped, and no failed-batch entry.
C2_PerRecordIsolation ==
  \A b \in Batches :
    ( /\ pc = "loop"
      /\ LastLog = << "completed", b + 1 >>
      /\ \E k \in BatchPositions(b) : StatementFails(entity, k, parents) ) =>
    /\ \A k \in BatchPositions(b) :
         ~StatementFails(entity, k, parents) => RowWritten(dest, k)
    /\ ~CountsPerRecord(entity) =>
         (batch_skipped = 1 /\ batch_processed = BatchLen(b) - 1)
    /\ \A i \in 1..Len(failed_batches) : failed_batches[i].batch_number # b + 1

\* the case C2 is about is reached: a batch with one failing statement has
\* been reported as completed
C2_Witness ==
  /\ pc = "loop"
  /\ LastLog = << "completed", 1 >>
  /\ nRecords = BATCH_SIZE
  /\ StatementFails(entity, 2, parents)

\* C3 (as claimed): a second clean run over the same source and the same
\* destination leaves every row and every column value as the first run
\* left them, with no id in two rows.
C3_SecondRunChangesNothing ==
  (pc = "done" /\ prev = "clean" /\ ~parentAdded /\ ~HasFailure(log)) =>
    (dest = startDest /\ UniqueIds(dest))

\* C3 (amended): a second clean run leaves every row and every column value
\* as the first run left them except _fivetran_synced, which the HubSpot
\* upserts set from the clock; the Wrike tables are left exactly as they
\* were; no id is in two rows.
C3_Idempotent ==
  (pc = "done" /\ prev = "clean" /\ ~parentAdded /\ ~HasFailure(log)) =>
    /\ WithoutSynced(dest) = WithoutSynced(startDest)
    /\ entity \in WrikeKinds => dest = startDest
    /\ UniqueIds(dest)
    /\ UniqueIds(WithoutSynced(dest))

\* C3 witness: the second of two clean runs over two batches has ended
C3_Witness ==
  /\ pc = "done" /\ prev = "clean" /\ ~parentAdded /\ ~HasFailure(log)
  /\ run = 2
  /\ nRecords > BATCH_SIZE
  /\ \A k \in 1..nRecords : RowWritten(dest, k)

\* C4: in the syncs that call parent_exists, a record whose parent row is
\* missing is not written, is counted as skipped, and leaves its batch
\* intact (the other records of the batch are written when it commits);
\* once the parent has been inserted, a clean run writes the record.
C4_DependencySkip ==
  (ChecksParent(entity) /\ faultKind \in {"orphan", "rootparent"}) =>
    /\ Rec(faultPos).parent \notin parents =>
         /\ RowsOf(dest, faultPos) = RowsOf(InitialDest, faultPos)
         /\ RowsOf(work, faultPos) = RowsOf(InitialDest, faultPos)
         /\ txn # "aborted"
    /\ ( /\ Rec(faultPos).parent \notin parents
         /\ pc = "loop"
         /\ LastLog = << "completed", BatchOfPos(faultPos) + 1 >> ) =>
         /\ batch_skipped = 1
         /\ batch_processed = BatchLen(BatchOfPos(faultPos)) - 1
         /\ \A k \in BatchPositions(BatchOfPos(faultPos)) \ {faultPos} :
              RowWritten(dest, k)
    /\ (pc = "done" /\ ~HasFailure(log) /\ Rec(faultPos).parent \in parents) =>
         RowWritten(dest, faultPos)

\* C4 witness: the record was skipped by a run that completed its batch and
\* wrote the record's neighbour, the parent was then inserted, and a second
\* clean run has written the record
C4_Witness ==
  /\ ChecksParent(entity) /\ faultKind = "orphan" /\ faultPos > 1
  /\ pc = "done" /\ ~HasFailure(log)
  /\ prev = "clean" /\ parentAdded
  /\ RowsOf(startDest, faultPos) = {}
  /\ RowWritten(startDest, 1)
  /\ RowWritten(dest, faultPos)

\* C5: every batch is started at most once and ends at most once, as either
\* completed or failed, after it was started; when the loop returns every
\* batch has been started once and ended once; and the destination never
\* holds part of a batch: of each batch it holds either no write or the row
\* of every loadable record.
C5_BatchLifecycle ==
  pc # "idle" =>
    /\ \A b \in Batches :
         /\ NumLog(<< "start", b + 1 >>) <= 1
         /\ NumLog(<< "completed", b + 1 >>) + NumLog(<< "FAILED", b + 1 >>)
              <= NumLog(<< "start", b + 1 >>)
         /\ pc = "done" =>
              NumLog(<< "completed", b + 1 >>) + NumLog(<< "FAILED", b + 1 >>) = 1
         /\ \/ RowsOfBatch(dest, b) = RowsOfBatch(startDest, b)
            \/ RowsOfBatch(dest, b) = RowsOfBatch(DestAfter({b}), b)
    /\ Len(log) <= 2 * total_batches

\* C5 witness: the loop has returned with one batch completed and one failed
C5_Witness ==
  /\ pc = "done"
  /\ total_batches = 2
  /\ CompletedBatches # {}
  /\ FailedBatches # {}

\* C6 (as claimed): a batch whose commit fails, also by loss of the
\* connection, is rolled back and recorded once as failed, and the loop
\* goes on and returns its counters: it never raises.
C6_FailureIsContained ==
  /\ pc # "raised"
  /\ (pc \in {"loop", "batch", "done"} /\ ~CountsPerRecord(entity)) =>
       \A b \in Batches :
         Cardinality({ i \in 1..Len(failed_batches) :
                         failed_batches[i].batch_number = b + 1 })
           = IF b \in FailedBatches THEN 1 ELSE 0

\* C7: when the process is terminated the destination holds exactly the
\* writes of the batches that had completed and nothing of the batch in
\* flight; a clean run after a terminated one leaves the destination as one
\* uninterrupted clean run over the original destination leaves it.
C7_TerminationSafe ==
  /\ pc = "killed" =>
       /\ txn = "none"
       /\ work = dest
       /\ dest = DestAfter(CompletedBatches)
  /\ (pc = "done" /\ prev = "killed" /\ ~HasFailure(log)) =>
       dest = ExpectedAfter(entity, InitialDest,
                            WrittenByAll(entity, Batches, parents), now)

\* C7 witness: a run was terminated after it had committed a batch, and the
\* clean run after it has ended with more rows than it found
C7_Witness ==
  /\ pc = "done" /\ prev = "killed" /\ ~HasFailure(log)
  /\ startDest # InitialDest
  /\ dest # startDest
  /\ Cardinality(dest) > Cardinality(startDest)

\* C8: the log of a run is start 1, end 1, start 2, end 2, ...: a batch is
\* started only after the one before it has been completed or has failed,
\* batches end in the order of their slices, and a transaction is open only
\* inside the batch that was started last.
C8_BatchesInOrder ==
  /\ \A i \in 1..Len(log) :
       /\ log[i][2] = (i + 1) \div 2
       /\ log[i][1] = IF i % 2 = 1 THEN "start" ELSE log[i][1]
       /\ i % 2 = 0 => log[i][1] \in {"completed", "FAILED"}
  /\ pc = "loop" => txn = "none"
  /\ txn # "none" => (pc = "batch" /\ LastLog = << "start", batch_num + 1 >>)

\* C8 witness: two batches have been committed one after the other
C8_Witness ==
  /\ log = << << "start", 1 >>, << "completed", 1 >>,
              << "start", 2 >>, << "completed", 2 >> >>
  /\ \A k \in 1..nRecords : RowWritten(dest, k)

\* C9: when a loop with per-batch counters returns, processed_count +
\* skipped_count is the number of records; every record lies in exactly one
\* batch of at most 25; processed_count counts the records processed in the
\* completed batches and nothing of a failed batch, whose records are all
\* counted as skipped.
C9_CountsAddUp ==
  (pc = "done" /\ ~CountsPerRecord(entity)) =>
    /\ processed_count + skipped_count = nRecords
    /\ processed_count =
         Cardinality(UNION { CountedProcessed(entity, b, parents) :
                             b \in CompletedBatches })
    /\ successful_batches = Cardinality(CompletedBatches)
    /\ Len(failed_batches) = Cardinality(FailedBatches)
    /\ \A k \in 1..nRecords :
         Cardinality({ b \in Batches : k \in BatchPositions(b) }) = 1
    /\ \A b \in Batches : BatchLen(b) >= 1 /\ BatchLen(b) <= 25

\* C9 witness: a loop has returned after one completed batch with a skipped
\* record and one failed batch
C9_Witness ==
  /\ pc = "done" /\ ~CountsPerRecord(entity)
  /\ 0 \in CompletedBatches /\ 1 \in FailedBatches
  /\ faultKind = "pyerr" /\ faultPos = 1
  /\ processed_count = BATCH_SIZE - 1
  /\ skipped_count = nRecords - processed_count

\* C10 (as claimed): when process_contacts returns, processed_count +
\* skipped_count is the number of contacts, and processed_count counts no
\* record of a batch whose commit failed.
C10_ContactsCounts ==
  (pc = "done" /\ entity = "contacts") =>
    /\ processed_count + skipped_count = nRecords
    /\ processed_count <=
         Cardinality(UNION { BatchPositions(b) : b \in CompletedBatches })

\* C11: in the companies / contacts / line-item upserts a column whose value
\* coerces to None is in neither the INSERT column list nor the SET list,
\* and upserting an existing id leaves that column's stored value unchanged.
C11_AbsentColumnOmitted ==
  (upsert_pc = "executed" /\ upsert_kind = "company") =>
    \A c \in Columns(upsert_kind) :
      db_values(properties)[c] = None =>
        /\ c \notin InsertColumns(upsert_kind, db_values(properties))
        /\ c \notin UpdateColumns(upsert_kind, db_values(properties))
        /\ row_before # NoRow => row_after[c] = row_before[c]
        /\ row_before = NoRow => row_after[c] = NULL

\* C11 witness: a stored name survives a payload without a name while the
\* amount of the payload is written
C11_Witness ==
  /\ upsert_pc = "executed" /\ upsert_kind = "company"
  /\ row_before # NoRow
  /\ row_before.property_name = "old"
  /\ properties.name = None
  /\ properties.amount = "7"
  /\ row_after.property_name = "old"
  /\ row_after.property_amount = "7.0"

\* C12 (as claimed): in upsert_deal and in the fixed-column Wrike upserts,
\* upserting an existing id with a payload in which field X is absent leaves
\* the stored value of X unchanged.
C12_AbsentFieldKept ==
  (UpdatedExisting /\ upsert_kind \in {"deal", "client", "deliverable"}) =>
    \A c \in Columns(upsert_kind) :
      (SourceOf(c) # "" /\ properties[SourceOf(c)] = None) =>
        row_after[c] = row_before[c]

\* C13 (as claimed): when the upsert hits an existing key, every non-key
\* column the statement supplies holds the new value afterwards.
C13_EverySuppliedColumnReplaced ==
  UpdatedExisting =>
    \A c \in InsertColumns(upsert_kind, TypedValues(upsert_kind, properties)) :
      row_after[c] = Adapt(TypedValues(upsert_kind, properties)[c])

\* C13 (amended): when the upsert hits an existing key, every non-key column
\* the statement supplies holds the new value afterwards, except created_date
\* of the Wrike tables and portal_id of hubspot.deal, which no SET list names
\* and which keep their stored value.
C13_LastWriteWins ==
  UpdatedExisting =>
    \A c \in InsertColumns(upsert_kind, TypedValues(upsert_kind, properties)) :
      IF \/ upsert_kind \in {"client", "deliverable"} /\ c = "created_date"
         \/ upsert_kind = "deal" /\ c = "portal_id"
      THEN row_after[c] = row_before[c]
      ELSE row_after[c] = Adapt(TypedValues(upsert_kind, properties)[c])

\* C13 witness: a client row is overwritten column by column and keeps its
\* created_date
C13_Witness ==
  /\ UpdatedExisting /\ upsert_kind = "client"
  /\ row_before = [ title |-> "old", owner_id |-> "old", created_date |-> "old" ]
  /\ properties = [ title |-> "it's", ownerId |-> " a", createdDate |-> "7" ]
  /\ row_after = [ title |-> "it''s", owner_id |-> " a", created_date |-> "old" ]

\* the number of pages the source serves at the fetchers' page size
NumPages ==
  IF source_count = 0 THEN 1 ELSE (source_count + PAGE_SIZE - 1) \div PAGE_SIZE

\* C16: with no limit and no request failure get_all_companies and
\* get_all_contacts request each page once following the server's cursor,
\* stop at the first response without a next cursor, and return all pages'
\* results in order.
C16_AllPagesOnce ==
  (script \in {"companies", "contacts"} /\ test_limit = 0 /\ fail_page = 0) =>
    /\ \A i \in 1..Len(requested) : requested[i] = (i - 1) * PAGE_SIZE
    /\ Len(requested) <= NumPages
    /\ Fetched =>
         /\ all_records = Ids(1, source_count)
         /\ Len(requested) = NumPages

\* C16 witness: pages of 100, 100 and 17 records gave 217 records
C16_Witness ==
  /\ script = "companies" /\ test_limit = 0 /\ fail_page = 0
  /\ Fetched
  /\ requested = << 0, PAGE_SIZE, 2 * PAGE_SIZE >>
  /\ Len(all_records) = 2 * PAGE_SIZE + 17
  /\ all_records[Len(all_records)] = source_count

\* C17: when the request for page k fails, get_all_companies and
\* get_all_contacts stop without raising and return exactly the records of
\* pages 1..k-1, which run_sync hands to the load when there are any.
C17_FailedPageStopsFetch ==
  (script \in {"companies", "contacts"} /\ fail_page # 0 /\ Fetched
     /\ WasRequested(fail_page)) =>
    /\ all_records = PagesBefore(fail_page)
    /\ Len(requested) = fail_page
    /\ fetch_pc # "raised"
    /\ fetch_pc = "nothing" => all_records = << >>
    /\ fetch_pc = "loading" =>
         (entity = script /\ nRecords = Len(PagesBefore(fail_page)))

\* C17 witness: the third request failed and the 200 records of the first
\* two pages went to the load
C17_Witness ==
  /\ script = "contacts" /\ fail_page = 3 /\ fail_how = "raise"
  /\ WasRequested(3)
  /\ fetch_pc = "loading"
  /\ all_records = Ids(1, 2 * PAGE_SIZE)
  /\ nRecords = 2 * PAGE_SIZE

\* C18 (as claimed): when fetching page k of line items fails, by a non-200
\* response or by a raised exception, get_all_line_items returns the items
\* of pages 1..k-1 and they go to the load.
C18_LineItemsKeptOnFailure ==
  (script = "line_items" /\ fail_page # 0 /\ Fetched
     /\ WasRequested(fail_page)) =>
    /\ all_records = PagesBefore(fail_page)
    /\ fetch_pc = "nothing" => PagesBefore(fail_page) = << >>


\* ---------------------------------------------------------------- C14
\* the returned list is the first L records of the source, in source order
FirstLReturned ==
  Fetched => all_records = Ids(1, test_limit)

\* C14: for a positive limit L and a source holding N >= L records, the
\* fetchers return exactly the first L records in source order, and the
\* load that follows attempts exactly those L records: when the run has
\* finished, processed + skipped = L.
C14_LimitIsExact ==
  /\ FirstLReturned
  /\ LoadFinished => LoadAttempted = test_limit

C14_Witness ==
  /\ LoadFinished
  /\ test_limit = PAGE_SIZE + 1
  /\ source_count = MaxSource
  /\ Len(requested) = 2

\* ---------------------------------------------------------------- C15
\* C15: every sync script invoked with a positive limit L, sync_deals and
\* the folder-by-folder deliverables and tasks syncs included, attempts to
\* upsert at most L records in the run.
C15_AttemptsWithinLimit ==
  test_limit > 0 => attempted <= test_limit

\* a run with limit 2 over two folders of two records each has ended
C15_Witness ==
  /\ script = "deliverables"
  /\ fetch_pc = "returned"
  /\ test_limit = SmallLen
  /\ folder_count = 2
  /\ source_count = 2

\* ---------------------------------------------------------------- C19
\* the rows of the pages committed before the failing one are in place
EarlierPagesKept ==
  (fetch_pc = "raised" /\ fail_page # 0 /\ Len(requested) = fail_page) =>
     /\ committed <= (fail_page - 1) * PAGE_SIZE
     /\ committed >= (fail_page - 1) * PAGE_SIZE - stats.errors

\* C19: in sync_deals run without --test, a failure confined to fetching
\* or committing one page does not abort the run: the pages committed
\* earlier keep their rows and the call returns its statistics instead of
\* raising.
C19_PageFailureContained ==
  (script = "deals" /\ ~test_mode) =>
     /\ EarlierPagesKept
     /\ fetch_pc # "raised"

\* the second page's commit has failed after the first page was committed
C19_Witness ==
  /\ script = "deals" /\ ~test_mode
  /\ fail_page = 2 /\ fail_how = "commit"
  /\ Len(requested) = 2
  /\ committed > 0

\* ---------------------------------------------------------------- C20
\* C20: with the parent entity's run and the child entity's run going on
\* at once, in any interleaving, the child run never blocks (it can always
\* take its step on the current record), never has a batch's transaction
\* fail because a parent is missing, and every child row it commits has a
\* null parent or a parent that exists in the destination.
C20_ChildToleratesMissingParent ==
  /\ InBatch => ENABLED RecordStep
  /\ txn # "aborted"
  /\ ParentReferenced

\* a batch holding a record whose parent was missing has been committed,
\* and the parent arrived while the child run was under way
C20_Witness ==
  /\ pc = "loop"
  /\ faultKind = "orphan"
  /\ batch_num > (faultPos - 1) \div BATCH_SIZE
  /\ parentAdded
  /\ skipped_count > 0

\* ---------------------------------------------------------------- C21
\* C21: if the extracted list holds the same external id twice, in one
\* batch or in two, both occurrences are upserted without error and both
\* count as processed, and the destination ends with exactly one row of
\* that id, holding the values of the later occurrence.
C21_DuplicateAbsorbed ==
  (pc = "done" /\ faultKind = "dup" /\ ~HasFailure(log)) =>
     /\ processed_count = nRecords
     /\ skipped_count = 0
     /\ \A r1, r2 \in dest : r1.id = r2.id => r1 = r2
     /\ \E r \in dest : r.id = 1 /\ r.val = Rec(faultPos).val

\* a clean run has ended whose second batch held the second occurrence
C21_Witness ==
  /\ pc = "done" /\ faultKind = "dup" /\ ~HasFailure(log)
  /\ nRecords = MaxRecords
  /\ faultPos = MaxRecords
  /\ Rec(faultPos).id = Rec(1).id

\* ---------------------------------------------------------------- C22
\* C22: if the Production space cannot be resolved (no space of that
\* title, or the spaces request fails), a Wrike sync run ends without
\* opening a database connection and without writing any destination row,
\* and reports the condition once.
C22_NoContainerNoWrites ==
  (Exited /\ ContainerNotFound) =>
     /\ opened = 0
     /\ batches_committed = 0
     /\ Reported("space_not_found") = 1

\* a run whose spaces request failed has ended
C22_Witness ==
  /\ Exited /\ ContainerNotFound
  /\ spaces = "error"
  /\ http_requests = 1

\* ---------------------------------------------------------------- C23
\* C23: the reported outcome of a run follows from its batches and setup:
\* 'success' iff no batch failed, 'completed with failures' iff at least
\* one did, and 'failed' (a non-zero return code, which the dashboard
\* records as status 'failed') whenever the container is not found or the
\* database connection is lost before any batch commits.
C23_OutcomeFollowsBatches ==
  (Exited /\ missing = "none") =>
     /\ SetupFailed => DashboardStatus(exit_code) = "failed"
     /\ \A i \in Summaries :
          reports[i].outcome =
            IF Reported("batch_failed") = 0 THEN "success" ELSE "failures"

\* a run that found no container has ended
C23_Witness ==
  /\ Exited /\ ContainerNotFound
  /\ spaces = "others"
  /\ exit_code = 0

\* ---------------------------------------------------------------- C24
\* C24: every run ends by emitting a summary with the processed and
\* skipped totals and the list of failed batches; no failed batch recorded
\* during the run is missing from it, and a run with nothing to load still
\* produces a summary.
C24_SummaryAlways ==
  (Exited /\ missing = "none") =>
     \E i \in Summaries :
        /\ reports[i].counts
        /\ reports[i].failed = failed_list

\* a run of a HubSpot script with nothing to load has ended
C24_Witness ==
  /\ Exited /\ missing = "none"
  /\ program = "companies"
  /\ n_batches = 0
  /\ opened = 1

\* ---------------------------------------------------------------- C26
\* C26: once a run has opened a database connection, the connection is
\* closed exactly once before the run returns or re-raises, on every path
\* (normal completion, early return on an empty extraction, an exception
\* that leaves the load), and the batches committed before a run-level
\* exception keep their rows.
C26_ConnectionClosedOnce ==
  /\ closed <= opened
  /\ Exited => closed = opened
  /\ (Exited /\ raised /\ opened > 0) => batches_committed = fail_at - 1

\* a run has re-raised after committing its first batch
C26_Witness ==
  /\ Exited /\ raised
  /\ opened = 1 /\ closed = 1
  /\ batches_committed = 1
  /\ fail_at = 2

\* ---------------------------------------------------------------- C27
\* C27: if a required configuration value (the API token, NEON_HOST,
\* NEON_DATABASE, NEON_USER or NEON_PASSWORD) is missing, the script stops
\* before it sends any HTTP request and before it opens any database
\* connection; no partial work occurs.
C27_ConfigCheckedFirst ==
  missing # "none" =>
     /\ http_requests = 0
     /\ opened = 0
     /\ batches_committed = 0
     /\ main_pc \in { "main", "extract", "exited" }

\* the line-item script has stopped on a missing token, which only
\* get_all_line_items tests
C27_Witness ==
  /\ Exited
  /\ missing = "token"
  /\ program = "line_items"

\* ---------------------------------------------------------------- C25
\* C25: each failed-batch entry carries the batch number, the error text
\* and the external ids of all records of that batch: its id list has as
\* many entries as the batch has records, whatever step of the batch
\* raised.
C25_FailedEntryComplete ==
  \A i \in 1..Len(failed_batches) :
    LET f == failed_batches[i]
    IN  /\ f.batch_number \in 1..total_batches
        /\ f.error # ""
        /\ f.count = BatchLen(f.batch_number - 1)
        /\ Len(f.ids) = f.count
        /\ f.ids = IdsOfBatch(f.batch_number - 1)

\* the commit of a batch raised after one of its records had been skipped
\* on an error of its own
C25_Witness ==
  /\ Len(failed_batches) = 1
  /\ faultKind = "pyerr"
  /\ faultPos = SmallLen
  /\ nRecords = BATCH_SIZE
  /\ pc = "loop"

\* ---------------------------------------------------------------- C28
\* C28: in the combined run, all clients are written and committed before
\* any parent project is written, all parent projects before any child
\* project, and each child project's row is written before the tasks and
\* deliverables of that child project.
C28_ParentsBeforeChildren ==
  /\ \A p \in WritesOf("parent") :
       /\ \A c \in WritesOf("client") : c < p
       /\ CommitOf("clients") # 0 /\ CommitOf("clients") < p
       /\ Cardinality(WritesOf("client")) = n_clients
  /\ \A ch \in WritesOf("child") :
       /\ \A p \in WritesOf("parent") : p < ch
       /\ CommitOf("parents") # 0 /\ CommitOf("parents") < ch
       /\ Cardinality(WritesOf("parent")) = n_parents
  /\ \A t \in WritesOf("task") :
       \E ch \in WritesOf("child") :
          ch < t /\ writes[ch].id = writes[t].of

\* a combined run over two folders of each type has committed everything
C28_Witness ==
  /\ phase = "done"
  /\ n_clients = MaxEntities /\ n_parents = MaxEntities
  /\ n_children = MaxEntities
  /\ Cardinality(WritesOf("task")) = 2 * n_tasks
  /\ n_tasks > 0

\* C29: every coercion function returns a typed value or None and never
\* raises, whatever the raw input: None, the empty string, garbage strings,
\* wrong-typed values, infinite or overflowing numbers, out-of-range epoch
\* timestamps.
C29_CoercionNeverRaises ==
  \A f \in Called : coerced[f].out = "returns"

\* C29 witness: the deals script was handed the string 'inf' for an integer
\* property: float('inf') is accepted, int() of it raises OverflowError,
\* and safe_integer catches ValueError and TypeError only.
C29_Witness ==
  /\ coerce_script = "deals"
  /\ raw = Raw("str", "inf", 0)
  /\ "safe_integer" \in Called
  /\ coerced["safe_integer"] = Raises("OverflowError")

\* C30: parent_exists answers true for a null or empty parent id without
\* querying the destination; for any other id it answers true exactly when a
\* row with that wrike_id is in the parent table, and that costs one query;
\* except that tasks_sync answers false for the sentinel id IEAGEMDVI7777777
\* even when such a row exists.
C30_ParentExistsContract ==
  /\ \A l \in Lookups :
       IF l.id \in { None, "" }
       THEN l.answer /\ l.executed = 0
       ELSE IF lookup_script = "tasks" /\ l.id = ROOT_ID
       THEN ~l.answer
       ELSE l.answer <=> l.id \in parent_table
  /\ (\A l \in Lookups : l.id \in { None, "" }) => statements = 0

\* C30 witness: tasks_sync asked for an empty parent id and for the
\* sentinel while a row with the sentinel id is in the deliverables table:
\* true without a query, then false.
C30_Witness ==
  /\ lookup_script = "tasks"
  /\ ROOT_ID \in parent_table
  /\ Len(lookups) = MaxLookups
  /\ lookups[1].id = "" /\ lookups[1].answer
  /\ statements = 0
  /\ lookups[MaxLookups].id = ROOT_ID /\ ~lookups[MaxLookups].answer

\* C31: safe_boolean returns None for None or the empty string, the value
\* itself for a boolean, true for a string equal (ignoring case) to one of
\* true / 1 / yes / on and false, not None, for every other non-empty string;
\* for a number it returns false for 0 and true for every non-zero value.
C31_SafeBooleanTable ==
  "safe_boolean" \in Called =>
    LET r == coerced["safe_boolean"]
    IN  CASE raw.type = "NoneType" \/ IsEmptyStr(raw) -> r = Returns(PyNone)
          [] raw.type = "bool" -> r = Returns(raw)
          [] raw.type = "str" -> r = Returns(PyBool(InTrueWords(raw)))
          [] raw.type \in { "int", "float" } ->
               r = Returns(PyBool(raw.form # "zero"))
          [] OTHER -> TRUE

\* C31 witness: safe_boolean of the deals script was handed 0.5:
\* bool(int(0.5)) is bool(0), and the non-zero number became false.
C31_Witness ==
  /\ coerce_script = "deals"
  /\ raw = Raw("float", "fraction", 0)
  /\ "safe_boolean" \in Called
  /\ coerced["safe_boolean"] = Returns(PyFalse)

\* C32: in every batched loop, processed_count at the end of the run equals
\* the number of records whose upsert was durably committed; in particular,
\* when one statement of a batch fails and is caught per record, the records
\* of that batch counted as processed are in the destination after the
\* batch's commit.
C32_ProcessedAreDurable ==
  pc = "done" =>
    processed_count =
      Cardinality({ k \in 1..nRecords : RowWritten(dest, k) })

\* C32 witness: process_clients handled a batch whose second statement the
\* database rejected: the first client was counted as processed, the commit
\* of the aborted transaction rolled it back, and its row is not in the
\* destination.
C32_Witness ==
  /\ entity = "clients"
  /\ faultKind = "dberr" /\ faultPos = 2
  /\ pc = "done"
  /\ processed_count = 1
  /\ ~RowWritten(dest, 1)
  /\ failed_batches = << >>

\* C33: when two runs concurrently upsert a record with the same id through
\* the update-then-insert statement of tasks and deliverables, both upserts
\* succeed without a skip or a failed batch and the table ends with exactly
\* one row for that id.
C33_ConcurrentUpsert ==
  RaceDone =>
    /\ \A r \in Runs : tally[r].processed = race_records
                        /\ tally[r].skipped = 0
    /\ Cardinality(SharedRows) = 1

\* C33 witness: the id was new and wrike_id has a unique index: run B's
\* INSERT waited for run A's commit and then raised a unique violation; B
\* skipped the record and, its transaction aborted, the rest of its batch.
C33_Witness ==
  /\ RaceDone
  /\ unique_key
  /\ race_records = MaxRaceRecords
  /\ tally["A"].processed = race_records
  /\ tally["B"].skipped = race_records
  /\ SharedRows = { TableRow(SHARED_ID, "A", "A") }

\* C34: process_line_item_batch never raises on a database error: when
\* connecting, executing or committing fails it rolls back if a connection
\* exists, releases what it opened, returns 0 for that batch, and run_sync
\* goes on to the next batch.
C34_BatchErrorContained ==
  /\ li_pc # "raised"
  /\ Len(li_returns) >= li_fault_at /\ li_fault_at > 0 =>
       li_returns[li_fault_at] = 0
  /\ li_pc \in { "run_sync", "done" } =>
       /\ li_conn \in { "unbound", "closed" }
       /\ li_cursor \in { "unbound", "closed" }
       /\ li_txn = "none"
  /\ li_pc = "done" => Len(li_returns) = li_batches

\* C34 witness: psycopg2.connect failed for the first of two batches: the
\* handler read the unbound local conn, UnboundLocalError left the call and
\* run_sync, and the second batch was never handed over.
C34_Witness ==
  /\ li_fault_kind = "connect" /\ li_fault_at = 1
  /\ li_batches = MaxLineBatches
  /\ li_pc = "raised"
  /\ li_error = "UnboundLocalError"
  /\ li_batch = 1
  /\ li_returns = << >>

\* C35: for each sync type the dashboard runs at most one sync subprocess at
\* a time: a start request that arrives while a sync of the type is in
\* progress, also one whose worker thread has been started but has not yet
\* recorded status 'running', is rejected as already running.
C35_OneSyncAtATime ==
  /\ Cardinality(Subprocesses) <= 1
  /\ Cardinality(InProgress) <= 1

\* C35 witness: both requests were answered 'started' (the second arrived
\* before the first thread had recorded 'running') and two subprocesses of
\* the type are alive.
C35_Witness ==
  /\ responses = << "started", "started" >>
  /\ Cardinality(Subprocesses) = 2

\* C36: every sync started through the dashboard eventually leaves status
\* 'running': once its subprocess has exited, active_syncs[sync_type].status
\* becomes 'completed' iff the exit code is 0 and 'failed' otherwise, a
\* completion time is recorded, and exactly one history record is appended
\* for the run (never a second one).
C36_RunIsRecorded ==
  /\ \A t \in Requests :
       worker[t] = "exited" ~>
         /\ worker[t] = "handled"
         /\ active_sync.status # "running"
         /\ (active_sync.status = "completed") <=> (return_code[t] = 0)
         /\ (active_sync.status = "failed") <=> (return_code[t] # 0)
  /\ \A t \in Requests :
       worker[t] = "exited" ~>
         /\ worker[t] = "finished"
         /\ active_sync.completed
         /\ Cardinality(RecordsOf(t)) = 1
         /\ \A i \in RecordsOf(t) :
              (sync_history[i].status = "completed") <=> (return_code[t] = 0)
  /\ [](\A t \in Requests :
         /\ Cardinality(RecordsOf(t)) <= 1
         /\ worker[t] \in { "exited", "spawned", "marked", "started", "none" }
              => RecordsOf(t) = {})

\* C36 witness: a run whose subprocess exited with a non-zero code has
\* returned: the status is 'failed', the completion time is recorded and the
\* history holds one record of the run, with status 'failed'.
C36_Witness ==
  \E t \in Requests :
    /\ worker[t] = "finished"
    /\ return_code[t] = 1
    /\ active_sync = [ status |-> "failed", completed |-> TRUE ]
    /\ \E i \in RecordsOf(t) : sync_history[i].status = "failed"
    /\ Cardinality(RecordsOf(t)) = 1

\* C37: in sync_deals each successfully upserted deal is counted 'created'
\* iff no row with its id existed in hubspot.deal before the upsert and
\* 'updated' otherwise: created + updated = processed and 'updated' counts
\* exactly the ids that existed before.
C37_CreatedIffNew ==
  /\ deal_stats.created + deal_stats.updated = deal_stats.processed
  /\ deal_stats.updated = existed_before
  /\ deal_stats.created = deal_stats.processed - existed_before

\* C37 witness: the page is committed and a deal whose id was in
\* hubspot.deal before its upsert has been counted as created.
C37_Witness ==
  /\ deal_pc = "committed"
  /\ existed_before >= 1
  /\ deal_stats.updated = 0
  /\ deal_stats.created = deal_stats.processed
  /\ deal_stats.processed >= 1

\* C37, the part that holds: every upserted deal is counted once, as
\* created or as updated.
C37_CountedOnce ==
  deal_stats.created + deal_stats.updated = deal_stats.processed

\* C38: a string property written through safe_string and then bound as a
\* parameter of the upsert statement is stored in the destination exactly as
\* it appeared in the source payload, also when it holds single quotes
\* (clients: the title; companies: a non-empty string property).
C38_StoredAsInSource ==
  (upsert_pc = "executed" /\ upsert_kind \in { "company", "client" }) =>
    LET col == IF upsert_kind = "company" THEN "property_name" ELSE "title"
        value == properties[SourceOf(col)]
        through_safe_string ==
          IF upsert_kind = "company" THEN Truthy(value) ELSE value # None
    IN  through_safe_string => row_after[col] = value

\* C38 witness: process_clients was handed a title with a single quote and
\* the stored title holds the quote twice.
C38_Witness ==
  /\ upsert_pc = "executed"
  /\ upsert_kind = "client"
  /\ properties.title = "it's"
  /\ row_after.title = "it''s"
  /\ row_after.title # properties.title

\* C38, the part that holds: a string without a single quote is stored as
\* it appeared in the source.
C38_QuoteFreeStoredAsInSource ==
  (upsert_pc = "executed" /\ upsert_kind \in { "company", "client" }) =>
    LET col == IF upsert_kind = "company" THEN "property_name" ELSE "title"
        value == properties[SourceOf(col)]
    IN  (Truthy(value) /\ value # "it's") => row_after[col] = value
====
